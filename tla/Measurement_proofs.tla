------------------------- MODULE Measurement_proofs -------------------------
(***************************************************************************)
(* A measured workload, proved for any number of requests, calls, samples  *)
(* and any mix of the catalog.                                             *)
(*                                                                         *)
(* Requests: an attempt can still be answered while it is being sent, and  *)
(* can still fail in transport until it has, so the counters and these     *)
(* attempts together never exceed the requests (HttpInv).                  *)
(*                                                                         *)
(* Results: a call is in the registry, in the sample in progress or in the *)
(* total (Calls), and what a phase has recorded holds for their sum        *)
(* (BooksInv); the windows of a timeline follow one another up to the last *)
(* sample (WindowsInv); and the sampler outlives what execute times        *)
(* (PhaseInv, SamplerInv).  Each rule of the validation follows from these *)
(* once the sampler has returned.                                          *)
(***************************************************************************)
EXTENDS Measurement, FiniteSetTheorems, SequenceTheorems, TLAPS

(* The types of the variables, by their actors. *)
Clocked ==
  /\ now \in 0 .. MaxTime /\ previousAt \in 0 .. now /\ sampleAt \in 0 .. now
  /\ since \in 0 .. now /\ clientMeasurement \in 0 .. now /\ durabilityDrain \in 0 .. now

AttemptStates == {"new", "sending", "receiving", "broken", "ended"}

HttpTyped ==
  /\ attempts \in [Requests -> [method : Methods, state : AttemptStates]]
  /\ counters \in [Methods -> [Counters -> Nat]]

StoreTyped ==
  /\ partial \in [Methods -> [Published -> Nat]]
  /\ storeStart \in [Methods -> [Published -> Nat]]
  /\ storeEnd \in [Methods -> [Published -> Nat]]

CallsTyped ==
  /\ mix \in Mixes /\ undurable \in Nat
  /\ current \in [Apis -> Nat] /\ drained \in [Apis -> Nat] /\ total \in [Apis -> Nat]

SamplerStates == {"start", "baseline", "wait", "sample", "finish", "final", "returned"}
Phases == {"baseline", "clients", "boundary", "flush", "covering", "stopping"} \union Outcomes

StateTyped ==
  /\ stop \in BOOLEAN /\ rateActive \in BOOLEAN /\ stepFailed \in BOOLEAN
  /\ samplerState \in SamplerStates /\ phase \in Phases

RateWindow == [elapsed : Nat, duration : Nat]
LatencyWindows == [elapsed : Nat, duration : Nat, sampled : SUBSET Apis]

WindowsTyped ==
  /\ rateWindows \in Seq(RateWindow) /\ resources \in Seq(RateWindow)
  /\ latencyWindows \in Seq(LatencyWindows)

Typed == Clocked /\ StoreTyped /\ CallsTyped /\ StateTyped /\ WindowsTyped

(* Request attempts that can still be answered, and those that can still fail. *)
Sending(m) == {r \in Requests : attempts[r] = [method |-> m, state |-> "sending"]}
Sound(m) ==
  {r \in Requests : attempts[r].method = m /\ attempts[r].state \in {"sending", "receiving"}}

HttpInv ==
  \A m \in Methods :
    /\ IsFiniteSet(Sound(m))
    /\ Responses(m) + Cardinality(Sending(m)) <= counters[m].requests
    /\ counters[m].transport_errors + Cardinality(Sound(m)) <= counters[m].requests
    /\ counters[m].client_errors + counters[m].server_errors + counters[m].transport_errors
         <= counters[m].request_errors

Over == phase \in {"stopping"} \union Outcomes

(* What execute times, and which channels it has used. *)
PhaseInv ==
  /\ phase \in {"baseline", "clients"} => clientMeasurement = 0
  /\ ~Over => durabilityDrain = 0
  /\ phase \in {"flush", "covering"} => clientMeasurement <= since /\ MayWrite /\ ~stepFailed
  /\ phase = "covering" => since < now
  /\ clientMeasurement + durabilityDrain <= now
  /\ durabilityDrain > 0 => MayWrite
  /\ Over /\ ~stepFailed /\ MayWrite => durabilityDrain > 0
  /\ stop <=> Over
  /\ rateActive <=> phase \in {"baseline", "clients", "boundary"}
  /\ phase \in Outcomes => samplerState = "returned"

(* What the sampler holds in each of its states. *)
SamplerInv ==
  /\ samplerState \in {"start", "baseline"} => phase = "baseline"
  /\ samplerState = "sample" => previousAt < sampleAt
  /\ samplerState \in {"finish", "final", "returned"} => stop
  /\ samplerState \in {"final", "returned"} => \A a \in Apis : current[a] = 0
  /\ samplerState \notin {"sample", "final"} => \A a \in Apis : drained[a] = 0
  /\ samplerState = "returned" =>
       /\ previousAt > 0 /\ clientMeasurement + durabilityDrain <= previousAt
       /\ latencyWindows # <<>>

(* All calls recorded so far, wherever they are. *)
Calls(a) == total[a] + drained[a] + current[a]

Flushed == phase = "covering" \/ durabilityDrain > 0

BooksInv ==
  /\ \A a \in Apis \ {"durable"} : Calls(a) > 0 => a \in Required \union Optional
  /\ Calls("flush") = IF Flushed THEN 1 ELSE 0
  /\ Calls("durable") + undurable = Calls("put") + Calls("transaction.commit")
  /\ Calls("transaction.get") = Calls("transaction.commit") + Calls("transaction.conflict")
  /\ Calls("transaction.put") = Calls("transaction.commit") + Calls("transaction.conflict")
  /\ Over /\ ~stepFailed /\ MayWrite => undurable = 0

(* Windows that follow one another from the start, no later than an instant. *)
Timeline(ws, p) ==
  \A i \in DOMAIN ws :
    /\ ws[i].duration > 0
    /\ ws[i].elapsed = ws[i].duration + IF i = 1 THEN 0 ELSE ws[i - 1].elapsed
    /\ ws[i].elapsed <= p

Reaches(ws, p) == IF ws = <<>> THEN p = 0 ELSE ws[Len(ws)].elapsed = p

(* Each API that was called is in the latency window of some sample. *)
Sampled(ws, counts) ==
  \A a \in Apis : counts[a] > 0 => \E i \in DOMAIN ws : a \in ws[i].sampled

WindowsInv ==
  /\ Timeline(rateWindows, previousAt) /\ Timeline(latencyWindows, previousAt)
  /\ Timeline(resources, previousAt)
  /\ rateActive => Reaches(rateWindows, previousAt)
  /\ Reaches(latencyWindows, previousAt)
  /\ samplerState # "returned" => Reaches(resources, previousAt)
  /\ rateWindows # <<>> => resources # <<>>
  /\ Sampled(latencyWindows, total)

CoreInv == Typed /\ PhaseInv /\ SamplerInv /\ BooksInv /\ WindowsInv /\ SuccessIsPublishable

RequestsInv == HttpTyped /\ HttpInv

-----------------------------------------------------------------------------
(* The requests *)

LEMMA TypesAre == HttpTyped /\ Typed => TypeOK
BY DEF HttpTyped, AttemptStates, Typed, Clocked, StoreTyped, CallsTyped, StateTyped,
       SamplerStates, Phases, TypeOK

LEMMA CountedIs ==
  ASSUME HttpTyped, NEW m \in Methods, NEW ks, counters' = Counted(m, ks)
  PROVE  /\ counters' \in [Methods -> [Counters -> Nat]]
         /\ \A n \in Methods \ {m} : counters'[n] = counters[n]
         /\ \A k \in Counters :
              counters'[m][k] = counters[m][k] + IF k \in ks THEN 1 ELSE 0
<1> DEFINE row == [k \in Counters |-> counters[m][k] + IF k \in ks THEN 1 ELSE 0]
<1>1. counters' = [counters EXCEPT ![m] = row]
  BY DEF Counted
<1>2. row \in [Counters -> Nat]
  BY DEF HttpTyped
<1>3. counters \in [Methods -> [Counters -> Nat]]
  BY DEF HttpTyped
<1>4. \A k \in Counters : row[k] = counters[m][k] + IF k \in ks THEN 1 ELSE 0
  OBVIOUS
<1> HIDE DEF row
<1>5. counters'[m] = row
  BY <1>1, <1>3
<1> QED
  BY <1>1, <1>2, <1>3, <1>4, <1>5

(* An attempt of a method takes a new state. *)
LEMMA AttemptIs ==
  ASSUME HttpTyped, NEW r \in Requests, NEW m \in Methods, NEW state \in AttemptStates,
         attempts[r].method = m \/ attempts[r].state = "new",
         attempts' = [attempts EXCEPT ![r] = [method |-> m, state |-> state]]
  PROVE  /\ attempts' \in [Requests -> [method : Methods, state : AttemptStates]]
         /\ \A n \in Methods \ {m} : Sending(n)' = Sending(n) /\ Sound(n)' = Sound(n)
         /\ Sending(m)' = IF state = "sending" THEN Sending(m) \union {r} ELSE Sending(m) \ {r}
         /\ Sound(m)' = IF state \in {"sending", "receiving"} THEN Sound(m) \union {r}
                        ELSE Sound(m) \ {r}
<1>1. attempts \in [Requests -> [method : Methods, state : AttemptStates]]
  BY DEF HttpTyped
<1>2. /\ attempts'[r].method = m /\ attempts'[r].state = state
      /\ \A q \in Requests \ {r} : attempts'[q] = attempts[q]
  BY <1>1
<1>3. attempts' \in [Requests -> [method : Methods, state : AttemptStates]]
  BY <1>1
<1> QED
  BY <1>1, <1>2, <1>3 DEF Sending, Sound

LEMMA StepIs ==
  ASSUME HttpTyped, NEW r \in Requests, NEW state, AttemptStep(r, state)
  PROVE  attempts' = [attempts EXCEPT ![r] = [method |-> attempts[r].method, state |-> state]]
<1>1. PICK old, m : old = attempts[r] /\ m = attempts[r].method
  OBVIOUS
<1>2. old = [method |-> m, state |-> old.state] /\ r \in DOMAIN attempts
  BY <1>1 DEF HttpTyped
<1>3. attempts' = [attempts EXCEPT ![r] = [old EXCEPT !.state = state]]
  BY <1>1, <1>2 DEF AttemptStep
<1>4. [old EXCEPT !.state = state] = [method |-> m, state |-> state]
  BY <1>2
<1> QED
  BY <1>1, <1>3, <1>4, Zenon

(* An attempt that joins a finite set or leaves it. *)
LEMMA OneMore ==
  ASSUME NEW S, IsFiniteSet(S), NEW r
  PROVE  /\ IsFiniteSet(S \union {r}) /\ IsFiniteSet(S \ {r})
         /\ Cardinality(S) \in Nat
         /\ Cardinality(S \union {r}) = Cardinality(S) + IF r \in S THEN 0 ELSE 1
         /\ Cardinality(S \ {r}) = Cardinality(S) - IF r \in S THEN 1 ELSE 0
BY FS_AddElement, FS_RemoveElement, FS_CardinalityType

(* The accounts of a method, as numbers. *)
Accounts(m, sending, sound) ==
  /\ Responses(m) + sending <= counters[m].requests
  /\ counters[m].transport_errors + sound <= counters[m].requests
  /\ counters[m].client_errors + counters[m].server_errors + counters[m].transport_errors
       <= counters[m].request_errors

LEMMA HttpIs ==
  ASSUME HttpInv, NEW m \in Methods
  PROVE  /\ IsFiniteSet(Sound(m)) /\ IsFiniteSet(Sending(m)) /\ Sending(m) \subseteq Sound(m)
         /\ Accounts(m, Cardinality(Sending(m)), Cardinality(Sound(m)))
<1>1. Sending(m) \subseteq Sound(m)
  BY DEF Sending, Sound
<1>2. IsFiniteSet(Sound(m))
  BY DEF HttpInv
<1>3. IsFiniteSet(Sending(m))
  BY <1>1, <1>2, FS_Subset
<1> QED
  BY <1>1, <1>2, <1>3 DEF HttpInv, Accounts

(* A step of an attempt that keeps the accounts of its method. *)
LEMMA RequestStep ==
  ASSUME RequestsInv, NEW m \in Methods,
         attempts' \in [Requests -> [method : Methods, state : AttemptStates]],
         counters' \in [Methods -> [Counters -> Nat]],
         \A n \in Methods \ {m} : /\ Sending(n)' = Sending(n) /\ Sound(n)' = Sound(n)
                                  /\ counters'[n] = counters[n],
         IsFiniteSet(Sound(m)'),
         Accounts(m, Cardinality(Sending(m)), Cardinality(Sound(m)))'
  PROVE  RequestsInv'
<1>1. HttpTyped'
  BY DEF HttpTyped
<1>2. ASSUME NEW n \in Methods
      PROVE  /\ IsFiniteSet(Sound(n)')
             /\ Accounts(n, Cardinality(Sending(n)), Cardinality(Sound(n)))'
  <2>1. CASE n = m
    BY <2>1
  <2>2. CASE n # m
    <3>1. Sending(n)' = Sending(n) /\ Sound(n)' = Sound(n) /\ counters'[n] = counters[n]
      BY <2>2
    <3>2. Accounts(n, Cardinality(Sending(n)), Cardinality(Sound(n))) /\ IsFiniteSet(Sound(n))
      BY HttpIs DEF RequestsInv
    <3> QED
      BY <3>1, <3>2 DEF Accounts, Responses
  <2> QED
    BY <2>1, <2>2
<1>3. HttpInv'
  BY <1>2 DEF HttpInv, Accounts
<1> QED
  BY <1>1, <1>3 DEF RequestsInv

(* The counters of a method, with what a step adds to them. *)
LEMMA RowIs ==
  ASSUME HttpTyped, NEW m \in Methods, NEW ks, counters' = Counted(m, ks)
  PROVE  /\ counters[m].requests \in Nat /\ counters[m].successful_requests \in Nat
         /\ counters[m].not_found_responses \in Nat /\ counters[m].client_errors \in Nat
         /\ counters[m].server_errors \in Nat /\ counters[m].transport_errors \in Nat
         /\ counters[m].request_errors \in Nat
         /\ counters'[m].requests = counters[m].requests + IF "requests" \in ks THEN 1 ELSE 0
         /\ counters'[m].successful_requests
              = counters[m].successful_requests + IF "successful_requests" \in ks THEN 1 ELSE 0
         /\ counters'[m].not_found_responses
              = counters[m].not_found_responses + IF "not_found_responses" \in ks THEN 1 ELSE 0
         /\ counters'[m].client_errors
              = counters[m].client_errors + IF "client_errors" \in ks THEN 1 ELSE 0
         /\ counters'[m].server_errors
              = counters[m].server_errors + IF "server_errors" \in ks THEN 1 ELSE 0
         /\ counters'[m].transport_errors
              = counters[m].transport_errors + IF "transport_errors" \in ks THEN 1 ELSE 0
         /\ counters'[m].request_errors
              = counters[m].request_errors + IF "request_errors" \in ks THEN 1 ELSE 0
<1>1. \A k \in Counters : counters'[m][k] = counters[m][k] + IF k \in ks THEN 1 ELSE 0
  BY CountedIs
<1>2. \A k \in Counters : counters[m][k] \in Nat
  BY DEF HttpTyped
<1> QED
  BY <1>1, <1>2 DEF Counters

LEMMA CallRequests ==
  ASSUME RequestsInv, NEW r \in Requests, NEW m \in Methods, Call(r, m)
  PROVE  RequestsInv'
<1>1. /\ attempts[r].state = "new" /\ counters' = Counted(m, {"requests"})
      /\ attempts' = [attempts EXCEPT ![r] = [method |-> m, state |-> "sending"]]
      /\ HttpTyped /\ HttpInv
  BY DEF Call, RequestsInv
<1>2. "sending" \in AttemptStates
  BY DEF AttemptStates
<1>3. /\ attempts' \in [Requests -> [method : Methods, state : AttemptStates]]
      /\ \A n \in Methods \ {m} : Sending(n)' = Sending(n) /\ Sound(n)' = Sound(n)
      /\ Sending(m)' = Sending(m) \union {r} /\ Sound(m)' = Sound(m) \union {r}
  BY <1>1, <1>2, AttemptIs
<1>4. r \notin Sending(m) /\ r \notin Sound(m)
  BY <1>1 DEF Sending, Sound
<1>5. /\ IsFiniteSet(Sound(m)') /\ Cardinality(Sound(m)) \in Nat /\ Cardinality(Sending(m)) \in Nat
      /\ Cardinality(Sound(m)') = Cardinality(Sound(m)) + 1
      /\ Cardinality(Sending(m)') = Cardinality(Sending(m)) + 1
  <2>1. IsFiniteSet(Sending(m)) /\ IsFiniteSet(Sound(m))
    BY <1>1, HttpIs
  <2>2. /\ Cardinality(Sending(m)) \in Nat
        /\ Cardinality(Sending(m) \union {r}) = Cardinality(Sending(m)) + 1
    BY <1>4, <2>1, OneMore
  <2>3. /\ Cardinality(Sound(m)) \in Nat /\ IsFiniteSet(Sound(m) \union {r})
        /\ Cardinality(Sound(m) \union {r}) = Cardinality(Sound(m)) + 1
    BY <1>4, <2>1, OneMore
  <2> QED
    BY <1>3, <2>2, <2>3, Zenon
<1>6. /\ counters' \in [Methods -> [Counters -> Nat]]
      /\ \A n \in Methods \ {m} : counters'[n] = counters[n]
  BY <1>1, CountedIs
<1>7. Accounts(m, Cardinality(Sending(m)), Cardinality(Sound(m)))'
  BY <1>1, <1>5, RowIs, HttpIs DEF Accounts, Responses
<1> QED
  BY <1>3, <1>5, <1>6, <1>7, RequestStep

LEMMA FrameRequests ==
  ASSUME RequestsInv, NEW r \in Requests, Frame(r)
  PROVE  RequestsInv'
<1>1. PICK m \in Methods : m = attempts[r].method
  BY DEF RequestsInv, HttpTyped
<1>2. counters' = Counted(m, {"bytes"}) /\ UNCHANGED attempts /\ HttpTyped /\ HttpInv
  BY <1>1 DEF Frame, RequestsInv
<1>3. \A n \in Methods : Sending(n)' = Sending(n) /\ Sound(n)' = Sound(n)
  BY <1>2 DEF Sending, Sound
<1>4. /\ counters' \in [Methods -> [Counters -> Nat]]
      /\ \A n \in Methods \ {m} : counters'[n] = counters[n]
  BY <1>2, CountedIs
<1>5. IsFiniteSet(Sound(m)')
  BY <1>2, <1>3, HttpIs
<1>6. Accounts(m, Cardinality(Sending(m)), Cardinality(Sound(m)))'
  BY <1>2, <1>3, RowIs, HttpIs DEF Accounts, Responses
<1> QED
  BY <1>2, <1>3, <1>4, <1>5, <1>6, RequestStep DEF HttpTyped

(* An attempt under way leaves its state; what that adds to the counters is *)
(* paid for by the sets it leaves.                                          *)
PaidFor(r, state, ks) ==
  /\ \/ ks = {}
     \/ /\ attempts[r].state = "sending" /\ state = "receiving"
        /\ \E status : ks = StatusCounters(status)
     \/ /\ attempts[r].state \in {"sending", "receiving"}
        /\ state \in {"broken", "ended"}
        /\ ks = {"request_errors", "transport_errors"}
  /\ state = "receiving" => attempts[r].state \in {"sending", "receiving"}

LEMMA StatusIs ==
  ASSUME NEW status
  PROVE  \/ StatusCounters(status) = {"successful_requests"}
         \/ StatusCounters(status) = {"not_found_responses"}
         \/ StatusCounters(status) = {"request_errors", "client_errors"}
         \/ StatusCounters(status) = {"request_errors", "server_errors"}
         \/ StatusCounters(status) = {"request_errors"}
<1>1. CASE status = "success"
  BY <1>1 DEF StatusCounters
<1>2. CASE status = "not found"
  BY <1>2 DEF StatusCounters
<1>3. CASE status = "client error"
  BY <1>3 DEF StatusCounters
<1>4. CASE status = "server error"
  BY <1>4 DEF StatusCounters
<1>5. CASE status \notin {"success", "not found", "client error", "server error"}
  BY <1>5 DEF StatusCounters
<1> QED
  BY <1>1, <1>2, <1>3, <1>4, <1>5

LEMMA LeavesRequests ==
  ASSUME RequestsInv, NEW r \in Requests, NEW m \in Methods, m = attempts[r].method,
         NEW state \in AttemptStates \ {"sending"},
         AttemptStep(r, state), NEW ks, counters' = Counted(m, ks), PaidFor(r, state, ks)
  PROVE  RequestsInv'
<1>1. HttpTyped /\ HttpInv
  BY DEF RequestsInv
<1>2. attempts' = [attempts EXCEPT ![r] = [method |-> m, state |-> state]]
  BY <1>1, StepIs
<1>3. /\ attempts' \in [Requests -> [method : Methods, state : AttemptStates]]
      /\ \A n \in Methods \ {m} : Sending(n)' = Sending(n) /\ Sound(n)' = Sound(n)
      /\ Sending(m)' = Sending(m) \ {r}
      /\ Sound(m)' = IF state \in {"sending", "receiving"} THEN Sound(m) \union {r}
                     ELSE Sound(m) \ {r}
  <2>1. state \in AttemptStates /\ state # "sending"
    OBVIOUS
  <2> QED
    BY <1>1, <1>2, <2>1, AttemptIs
<1>4. /\ r \in Sending(m) <=> attempts[r].state = "sending"
      /\ r \in Sound(m) <=> attempts[r].state \in {"sending", "receiving"}
  BY <1>1 DEF Sending, Sound, HttpTyped
<1>5. PICK sent, sound : sent = Cardinality(Sending(m)) /\ sound = Cardinality(Sound(m))
  OBVIOUS
<1>6. PICK left :
        /\ left \in {0, 1}
        /\ left = IF "transport_errors" \in ks THEN 1 ELSE 0
        /\ left = 1 => /\ attempts[r].state \in {"sending", "receiving"}
                       /\ state \in {"broken", "ended"}
  <2>1. CASE "transport_errors" \in ks
    <3>1. attempts[r].state \in {"sending", "receiving"} /\ state \in {"broken", "ended"}
      BY <2>1, StatusIs DEF PaidFor
    <3> QED
      BY <2>1, <3>1
  <2>2. CASE "transport_errors" \notin ks
    BY <2>2
  <2> QED
    BY <2>1, <2>2
<1>7. /\ sent \in Nat /\ sound \in Nat
      /\ Cardinality(Sending(m)') = sent - IF attempts[r].state = "sending" THEN 1 ELSE 0
      /\ IsFiniteSet(Sound(m)') /\ Cardinality(Sound(m)') <= sound - left
      /\ Cardinality(Sound(m)') \in Nat
  <2>1. IsFiniteSet(Sending(m)) /\ IsFiniteSet(Sound(m))
    BY <1>1, HttpIs
  <2>2. sent \in Nat /\ sound \in Nat
    <3>1. Cardinality(Sending(m)) \in Nat /\ Cardinality(Sound(m)) \in Nat
      BY <2>1, FS_CardinalityType
    <3> QED
      BY <1>5, <3>1
  <2>3. Cardinality(Sending(m)') = sent - IF attempts[r].state = "sending" THEN 1 ELSE 0
    <3>1. Cardinality(Sending(m) \ {r})
            = Cardinality(Sending(m)) - IF r \in Sending(m) THEN 1 ELSE 0
      BY <2>1, OneMore
    <3> QED
      BY <1>3, <1>4, <1>5, <3>1
  <2>4. IsFiniteSet(Sound(m)')
    <3>1. IsFiniteSet(Sound(m) \union {r}) /\ IsFiniteSet(Sound(m) \ {r})
      BY <2>1, OneMore
    <3> QED
      BY <1>3, <3>1, Zenon
  <2>5. Cardinality(Sound(m)') \in Nat
    BY <2>4, OneMore
  <2>6. CASE state \in {"sending", "receiving"}
    <3>1. Sound(m)' = Sound(m) /\ left = 0
      <4>1. state = "receiving" /\ attempts[r].state \in {"sending", "receiving"}
        BY <2>6 DEF PaidFor
      <4> QED
        BY <1>3, <1>4, <1>6, <4>1
    <3> QED
      BY <1>5, <1>6, <2>2, <2>3, <2>4, <2>5, <3>1
  <2>7. CASE state \notin {"sending", "receiving"}
    <3>1. Sound(m)' = Sound(m) \ {r} /\ (left = 1 => r \in Sound(m))
      BY <1>3, <1>4, <1>6, <2>7
    <3>2. Cardinality(Sound(m)') = sound - IF r \in Sound(m) THEN 1 ELSE 0
      <4>1. Cardinality(Sound(m) \ {r})
              = Cardinality(Sound(m)) - IF r \in Sound(m) THEN 1 ELSE 0
        BY <2>1, OneMore
      <4> QED
        BY <1>5, <3>1, <4>1
    <3> QED
      BY <1>5, <1>6, <2>2, <2>3, <2>4, <2>5, <3>1, <3>2
  <2> QED
    BY <2>6, <2>7
<1>8. /\ counters' \in [Methods -> [Counters -> Nat]]
      /\ \A n \in Methods \ {m} : counters'[n] = counters[n]
  BY <1>1, CountedIs
<1>9. Accounts(m, sent, sound)
  BY <1>1, <1>5, HttpIs
<1>10. Accounts(m, Cardinality(Sending(m)), Cardinality(Sound(m)))'
  <2>1. \/ ks = {}
        \/ ks = {"request_errors", "transport_errors"}
        \/ /\ attempts[r].state = "sending"
           /\ \/ ks = {"successful_requests"} \/ ks = {"not_found_responses"}
              \/ ks = {"request_errors", "client_errors"}
              \/ ks = {"request_errors", "server_errors"} \/ ks = {"request_errors"}
    BY StatusIs DEF PaidFor
  <2>2. /\ left = IF "transport_errors" \in ks THEN 1 ELSE 0
        /\ counters[m].transport_errors + sound <= counters[m].requests
        /\ Responses(m) + sent <= counters[m].requests
        /\ Responses(m) = counters[m].successful_requests + counters[m].not_found_responses
                           + counters[m].client_errors + counters[m].server_errors
    BY <1>9, <1>6 DEF Accounts, Responses
  <2>3. CASE ks = {}
    BY <1>1, <1>7, <1>9, <2>2, <2>3, RowIs DEF Accounts, Responses
  <2>4. CASE ks = {"request_errors", "transport_errors"}
    BY <1>1, <1>7, <1>9, <2>2, <2>4, RowIs DEF Accounts, Responses
  <2>5. CASE /\ attempts[r].state = "sending"
             /\ \/ ks = {"successful_requests"} \/ ks = {"not_found_responses"}
                \/ ks = {"request_errors", "client_errors"}
                \/ ks = {"request_errors", "server_errors"} \/ ks = {"request_errors"}
    <3>1. /\ counters'[m].requests = counters[m].requests
          /\ counters'[m].transport_errors = counters[m].transport_errors /\ left = 0
          /\ counters[m].requests \in Nat /\ counters[m].transport_errors \in Nat
      BY <1>1, <2>2, <2>5, RowIs
    <3>2. Responses(m) \in Nat /\ Responses(m)' \in Nat /\ Responses(m)' <= Responses(m) + 1
      BY <1>1, <2>5, RowIs DEF Responses
    <3>3. counters'[m].client_errors + counters'[m].server_errors + counters'[m].transport_errors
            <= counters'[m].request_errors
      BY <1>1, <1>9, <2>5, RowIs DEF Accounts
    <3> QED
      BY <1>7, <2>2, <2>5, <3>1, <3>2, <3>3 DEF Accounts
  <2> QED
    BY <2>1, <2>3, <2>4, <2>5
<1> QED
  BY <1>3, <1>7, <1>8, <1>10, RequestStep

LEMMA RequestsKept ==
  ASSUME RequestsInv, UNCHANGED httpVars
  PROVE  RequestsInv'
<1>1. UNCHANGED <<attempts, counters>>
  BY DEF httpVars
<1>2. HttpTyped'
  BY <1>1 DEF RequestsInv, HttpTyped
<1>3. \A m \in Methods :
        /\ Sending(m)' = Sending(m) /\ Sound(m)' = Sound(m) /\ Responses(m)' = Responses(m)
        /\ counters'[m] = counters[m]
  BY <1>1 DEF Sending, Sound, Responses
<1>4. HttpInv'
  BY <1>3 DEF RequestsInv, HttpInv
<1> QED
  BY <1>2, <1>4 DEF RequestsInv

LEMMA HttpRequests ==
  ASSUME RequestsInv, NEW r \in Requests, Http(r)
  PROVE  RequestsInv'
<1>1. PICK m \in Methods, old \in AttemptStates :
        m = attempts[r].method /\ old = attempts[r].state
  BY DEF RequestsInv, HttpTyped
<1>2. ASSUME NEW n \in Methods, Call(r, n) PROVE RequestsInv'
  BY <1>2, CallRequests
<1>3. CASE Frame(r)
  BY <1>3, FrameRequests
<1>4. ASSUME NEW s \in Statuses, Responds(r, s) PROVE RequestsInv'
  <2>1. PICK ks : ks = StatusCounters(s)
    OBVIOUS
  <2>2. AttemptStep(r, "receiving") /\ counters' = Counted(m, ks)
    BY <1>1, <1>4, <2>1 DEF Responds
  <2>3. PaidFor(r, "receiving", ks)
    BY <1>4, <2>1 DEF Responds, PaidFor
  <2> QED
    BY <1>1, <2>2, <2>3, LeavesRequests DEF AttemptStates
<1>5. CASE NoResponse(r)
  <2>1. /\ AttemptStep(r, "ended")
        /\ counters' = Counted(m, {"request_errors", "transport_errors"})
    BY <1>1, <1>5 DEF NoResponse
  <2>2. PaidFor(r, "ended", {"request_errors", "transport_errors"})
    BY <1>5 DEF NoResponse, PaidFor
  <2> QED
    BY <1>1, <2>1, <2>2, LeavesRequests DEF AttemptStates
<1>6. CASE BodyFails(r)
  <2>1. AttemptStep(r, "broken") /\ attempts[r].state \in {"receiving", "broken"}
    BY <1>6 DEF BodyFails
  <2>2. CASE attempts[r].state = "broken"
    <3>1. counters' = counters
      BY <1>6, <2>2 DEF BodyFails
    <3>2. attempts' = attempts
      <4>1. attempts' = [attempts EXCEPT ![r] = [method |-> m, state |-> "broken"]]
        BY <1>1, <2>1, StepIs DEF RequestsInv
      <4>2. attempts[r] = [method |-> m, state |-> "broken"]
        BY <1>1, <2>2 DEF RequestsInv, HttpTyped
      <4> QED
        BY <4>1, <4>2 DEF RequestsInv, HttpTyped
    <3> QED
      BY <3>1, <3>2, RequestsKept DEF httpVars
  <2>3. CASE attempts[r].state = "receiving"
    <3>1. counters' = Counted(m, {"request_errors", "transport_errors"})
      BY <1>1, <1>6, <2>3 DEF BodyFails
    <3>2. PaidFor(r, "broken", {"request_errors", "transport_errors"})
      BY <2>3 DEF PaidFor
    <3> QED
      BY <1>1, <2>1, <3>1, <3>2, LeavesRequests DEF AttemptStates
  <2> QED
    BY <2>1, <2>2, <2>3
<1>7. CASE AttemptEnds(r)
  <2>1. AttemptStep(r, "ended") /\ counters' = counters
    BY <1>7 DEF AttemptEnds
  <2>2. counters' = Counted(m, {})
    <3>1. counters[m] = [k \in Counters |-> counters[m][k] + IF k \in {} THEN 1 ELSE 0]
      <4>1. PICK row \in [Counters -> Nat] : row = counters[m]
        BY DEF RequestsInv, HttpTyped
      <4>2. \A k \in Counters : row[k] = row[k] + IF k \in {} THEN 1 ELSE 0
        OBVIOUS
      <4>3. row = [k \in Counters |-> row[k] + IF k \in {} THEN 1 ELSE 0]
        BY <4>2
      <4> QED
        BY <4>1, <4>3, Zenon
    <3>2. counters = [counters EXCEPT ![m] = counters[m]]
      BY DEF RequestsInv, HttpTyped
    <3> QED
      BY <2>1, <3>1, <3>2 DEF Counted
  <2>3. PaidFor(r, "ended", {})
    BY DEF PaidFor
  <2> QED
    BY <1>1, <2>1, <2>2, <2>3, LeavesRequests DEF AttemptStates
<1> QED
  BY <1>2, <1>3, <1>4, <1>5, <1>6, <1>7 DEF Http

LEMMA RequestsInit == Init => RequestsInv
<1> SUFFICES ASSUME Init PROVE RequestsInv
  OBVIOUS
<1>1. HttpTyped
  <2>1. (CHOOSE m \in Methods : TRUE) \in Methods
    BY MeasurementAssumption
  <2> QED
    BY <2>1 DEF Init, HttpTyped, AttemptStates, Zero
<1>2. ASSUME NEW m \in Methods
      PROVE  /\ Sound(m) = {} /\ Sending(m) = {}
             /\ \A k \in Counters : counters[m][k] = 0
  BY DEF Init, Sound, Sending, Zero
<1>3. ASSUME NEW m \in Methods
      PROVE  /\ counters[m].requests = 0 /\ counters[m].transport_errors = 0
             /\ counters[m].request_errors = 0 /\ Responses(m) = 0
             /\ counters[m].client_errors = 0 /\ counters[m].server_errors = 0
  BY <1>2 DEF Counters, Responses
<1>4. HttpInv
  BY <1>2, <1>3, FS_EmptySet DEF HttpInv
<1> QED
  BY <1>1, <1>4 DEF RequestsInv

-----------------------------------------------------------------------------
(* Windows *)

(* What a timeline becomes with a window that begins where it ends. *)
Extended(W, ws, new, w, at) ==
  /\ new \in Seq(W) /\ new # <<>>
  /\ Timeline(new, at) /\ Reaches(new, at)
  /\ \A i \in DOMAIN ws : i \in DOMAIN new /\ new[i] = ws[i]
  /\ \E n \in DOMAIN new : new[n] = w

LEMMA WindowAppended ==
  ASSUME NEW W, \A w \in W : w.elapsed \in Nat /\ w.duration \in Nat,
         NEW ws \in Seq(W), NEW p \in Nat, NEW at \in Nat, p < at,
         Timeline(ws, p), Reaches(ws, p),
         NEW w \in W, w.elapsed = at, w.duration = at - p
  PROVE  Extended(W, ws, Append(ws, w), w, at)
<1> DEFINE n == Len(ws)
           new == Append(ws, w)
<1>0. n \in Nat /\ new \in Seq(W) /\ (n = 0 => ws = <<>>)
  BY AppendProperties, EmptySeq, LenProperties
<1>1. n \in Nat /\ new \in Seq(W) /\ n = Len(ws) /\ new = Append(ws, w)
  BY <1>0
<1> HIDE DEF n, new
<1>2. /\ Len(new) = n + 1 /\ DOMAIN new = 1 .. (n + 1) /\ DOMAIN ws = 1 .. n
      /\ \A i \in 1 .. n : new[i] = ws[i]
      /\ new[n + 1] = w /\ new # <<>>
  BY <1>1
<1>3. \A i \in 1 .. n : ws[i] \in W /\ ws[i].elapsed \in Nat /\ ws[i].duration \in Nat
  BY <1>1, <1>2
<1>4. n > 0 => ws[n].elapsed = p
  BY <1>1, <1>2 DEF Reaches
<1>5. n = 0 => p = 0
  BY <1>0 DEF Reaches
<1>6. ASSUME NEW i \in 1 .. (n + 1)
      PROVE  /\ new[i].duration > 0
             /\ new[i].elapsed = new[i].duration + IF i = 1 THEN 0 ELSE new[i - 1].elapsed
             /\ new[i].elapsed <= at
  <2>1. CASE i \in 1 .. n
    <3>1. /\ ws[i].duration > 0 /\ ws[i].elapsed <= p
          /\ ws[i].elapsed = ws[i].duration + IF i = 1 THEN 0 ELSE ws[i - 1].elapsed
      BY <1>2, <2>1 DEF Timeline
    <3>2. i # 1 => i - 1 \in 1 .. n
      BY <1>1, <2>1
    <3> QED
      BY <1>1, <1>2, <1>3, <2>1, <3>1, <3>2
  <2>2. CASE i = n + 1
    <3>1. new[i] = w
      BY <1>1, <1>2, <2>2
    <3>2. n # 0 => n \in 1 .. n /\ new[n] = ws[n]
      BY <1>1, <1>2
    <3> QED
      BY <1>1, <1>3, <1>4, <1>5, <2>2, <3>1, <3>2
  <2> QED
    BY <1>1, <2>1, <2>2
<1>7. Timeline(new, at)
  BY <1>2, <1>6 DEF Timeline
<1>8. Reaches(new, at)
  BY <1>2 DEF Reaches
<1>9. \A i \in DOMAIN ws : i \in DOMAIN new /\ new[i] = ws[i]
  BY <1>1, <1>2
<1>10. n + 1 \in DOMAIN new /\ new[n + 1] = w
  BY <1>1, <1>2
<1> QED
  BY <1>1, <1>2, <1>7, <1>8, <1>9, <1>10 DEF Extended, new

LEMMA TimelineLater ==
  ASSUME NEW W, \A w \in W : w.elapsed \in Nat, NEW ws \in Seq(W),
         NEW p \in Nat, NEW at \in Nat, p <= at, Timeline(ws, p)
  PROVE  Timeline(ws, at)
<1>1. \A i \in DOMAIN ws : ws[i] \in W
  OBVIOUS
<1> QED
  BY <1>1 DEF Timeline

-----------------------------------------------------------------------------
(* Steps that keep most of the state *)

LEMMA MixIs ==
  ASSUME mix \in Mixes
  PROVE  /\ mix \subseteq {"get", "put", "scan", "transaction"}
         /\ ~("put" \in mix /\ "transaction" \in mix)
BY MeasurementAssumption

LEMMA CoreKept ==
  ASSUME CoreInv, UNCHANGED <<now, callVars, samplerVars, taskVars>>
  PROVE  CoreInv'
<1>1. UNCHANGED <<now, mix, current, undurable, samplerState, sampleAt, drained, partial,
                  previousAt, total, rateWindows, latencyWindows, resources, storeStart,
                  storeEnd, stop, rateActive, phase, stepFailed, since, clientMeasurement,
                  durabilityDrain>>
  BY DEF callVars, samplerVars, windowVars, taskVars
<1>2. Typed'
  BY <1>1 DEF CoreInv, Typed, Clocked, StoreTyped, CallsTyped, StateTyped, WindowsTyped
<1>3. PhaseInv' /\ SamplerInv'
  BY <1>1 DEF CoreInv, PhaseInv, SamplerInv, Over, MayWrite
<1>4. BooksInv'
  BY <1>1 DEF CoreInv, BooksInv, Calls, Flushed, Over, MayWrite, Required, Optional
<1>5. WindowsInv'
  BY <1>1 DEF CoreInv, WindowsInv
<1>6. SuccessIsPublishable'
  BY <1>1 DEF CoreInv, SuccessIsPublishable, OperationRows, Required, MayWrite
<1> QED
  BY <1>2, <1>3, <1>4, <1>5, <1>6 DEF CoreInv

LEMMA TimeCore ==
  ASSUME CoreInv, TimePasses
  PROVE  CoreInv'
<1>1. /\ now' = now + 1 /\ now < Latest /\ phase \notin Outcomes
      /\ UNCHANGED <<mix, current, undurable, samplerState, sampleAt, drained, partial,
                     previousAt, total, rateWindows, latencyWindows, resources, storeStart,
                     storeEnd, stop, rateActive, phase, stepFailed, since, clientMeasurement,
                     durabilityDrain>>
  BY DEF TimePasses, callVars, samplerVars, windowVars, taskVars
<1>2. Clocked
  BY DEF CoreInv, Typed
<1>3. now' \in 0 .. MaxTime
  <2>1. Latest \in {MaxTime, MaxTime - 1, MaxTime - 2}
    <3>1. CASE phase \in {"baseline", "clients", "boundary"}
      BY <3>1 DEF Latest
    <3>2. CASE phase \in {"flush", "covering"}
      BY <3>2 DEF Latest
    <3>3. CASE phase \notin {"baseline", "clients", "boundary", "flush", "covering"}
      BY <3>3 DEF Latest
    <3> QED
      BY <3>1, <3>2, <3>3
  <2>2. MaxTime \in Nat /\ now \in Nat
    BY <1>2, MeasurementAssumption DEF Clocked
  <2> QED
    BY <1>1, <2>1, <2>2
<1>4. Typed'
  BY <1>1, <1>2, <1>3 DEF CoreInv, Typed, Clocked, StoreTyped, CallsTyped, StateTyped, WindowsTyped
<1>5. PhaseInv'
  BY <1>1, <1>2 DEF CoreInv, PhaseInv, Over, MayWrite, Clocked
<1>6. SamplerInv'
  BY <1>1 DEF CoreInv, SamplerInv
<1>7. BooksInv'
  BY <1>1 DEF CoreInv, BooksInv, Calls, Flushed, Over, MayWrite, Required, Optional
<1>8. WindowsInv'
  BY <1>1 DEF CoreInv, WindowsInv
<1>9. SuccessIsPublishable'
  BY <1>1 DEF SuccessIsPublishable, Outcomes
<1> QED
  BY <1>4, <1>5, <1>6, <1>7, <1>8, <1>9 DEF CoreInv

-----------------------------------------------------------------------------
(* Calls *)

LEMMA RecordedIs ==
  ASSUME CallsTyped, NEW as, current' = Recorded(as), UNCHANGED <<total, drained>>
  PROVE  /\ current' \in [Apis -> Nat]
         /\ \A a \in Apis : /\ Calls(a) \in Nat
                            /\ Calls(a)' = Calls(a) + IF a \in as THEN 1 ELSE 0
<1> DEFINE new == [a \in Apis |-> current[a] + IF a \in as THEN 1 ELSE 0]
<1>1. current' = new
  BY DEF Recorded
<1>2. \A a \in Apis : current[a] \in Nat /\ drained[a] \in Nat /\ total[a] \in Nat
  BY DEF CallsTyped
<1>3. /\ new \in [Apis -> Nat]
      /\ \A a \in Apis : new[a] = current[a] + IF a \in as THEN 1 ELSE 0
  <2>1. ASSUME NEW a \in Apis
        PROVE  current[a] + (IF a \in as THEN 1 ELSE 0) \in Nat
    <3>1. CASE a \in as
      BY <1>2, <3>1
    <3>2. CASE a \notin as
      BY <1>2, <3>2
    <3> QED
      BY <3>1, <3>2
  <2> QED
    BY <2>1, Zenon
<1> HIDE DEF new
<1>4. ASSUME NEW a \in Apis
      PROVE  Calls(a) \in Nat /\ Calls(a)' = Calls(a) + IF a \in as THEN 1 ELSE 0
  <2>1. PICK one \in Nat : one = IF a \in as THEN 1 ELSE 0
    OBVIOUS
  <2>2. Calls(a)' = total[a] + drained[a] + current'[a]
    BY DEF Calls
  <2>3. Calls(a) = total[a] + drained[a] + current[a]
    BY DEF Calls
  <2>4. current'[a] = current[a] + one
    BY <1>1, <1>3, <2>1
  <2>5. Calls(a)' = Calls(a) + one /\ Calls(a) \in Nat
    BY <1>2, <2>2, <2>3, <2>4
  <2> QED
    BY <2>1, <2>5
<1> QED
  BY <1>1, <1>3, <1>4

(* Calls recorded before the sampler is stopped. *)
LEMMA CallsCore ==
  ASSUME CoreInv, NEW as, current' = Recorded(as), undurable' \in Nat,
         UNCHANGED <<now, mix, samplerVars, taskVars>>, ~Over, BooksInv'
  PROVE  CoreInv'
<1>1. UNCHANGED <<now, mix, samplerState, sampleAt, drained, partial, previousAt, total,
                  rateWindows, latencyWindows, resources, storeStart, storeEnd, stop,
                  rateActive, phase, stepFailed, since, clientMeasurement, durabilityDrain>>
  BY DEF samplerVars, windowVars, taskVars
<1>2. Typed'
  BY <1>1, RecordedIs
     DEF CoreInv, Typed, Clocked, StoreTyped, CallsTyped, StateTyped, WindowsTyped
<1>3. PhaseInv'
  BY <1>1 DEF CoreInv, PhaseInv, Over, MayWrite
<1>4. SamplerInv'
  BY <1>1 DEF CoreInv, PhaseInv, SamplerInv
<1>5. WindowsInv'
  BY <1>1 DEF CoreInv, WindowsInv
<1>6. SuccessIsPublishable'
  BY <1>1 DEF SuccessIsPublishable, Over, Outcomes
<1> QED
  BY <1>2, <1>3, <1>4, <1>5, <1>6 DEF CoreInv

LEMMA Allowed ==
  /\ \A a \in mix \ {"transaction"} : a \in Required
  /\ "transaction" \in mix =>
       /\ {"transaction.get", "transaction.put", "transaction.commit"} \subseteq Required
       /\ "transaction.conflict" \in Optional
  /\ MayWrite => "flush" \in Required
BY DEF Required, Optional

(* The sums of BooksInv before a step, of which only those of as change. *)
LEMMA BooksAre ==
  ASSUME CoreInv
  PROVE  /\ Calls("get") \in Nat /\ Calls("put") \in Nat /\ Calls("scan") \in Nat
         /\ Calls("flush") \in Nat /\ Calls("durable") \in Nat
         /\ Calls("transaction.get") \in Nat /\ Calls("transaction.put") \in Nat
         /\ Calls("transaction.commit") \in Nat /\ Calls("transaction.conflict") \in Nat
         /\ undurable \in Nat /\ CallsTyped
         /\ \A a \in Apis : Calls(a) \in Nat
<1>1. \A a \in Apis : Calls(a) \in Nat
  BY DEF CoreInv, Typed, CallsTyped, Calls
<1> QED
  BY <1>1 DEF CoreInv, Typed, CallsTyped, Apis

LEMMA OperationCore ==
  ASSUME CoreInv, NEW a \in Apis, Operation(a)
  PROVE  CoreInv'
<1>1. /\ phase = "clients" /\ a \in mix \ {"transaction"} /\ current' = Recorded({a})
      /\ undurable' = undurable + IF a = "put" THEN 1 ELSE 0
      /\ UNCHANGED <<now, mix, samplerVars, taskVars>>
  BY DEF Operation, MayCall, CallsOnly
<1>2. UNCHANGED <<total, drained, phase, durabilityDrain, stepFailed, mix>>
  BY <1>1 DEF samplerVars, windowVars, taskVars
<1>3. /\ \A b \in Apis : Calls(b) \in Nat /\ Calls(b)' = Calls(b) + IF b = a THEN 1 ELSE 0
      /\ undurable \in Nat
  BY <1>1, <1>2, BooksAre, RecordedIs
<1>4. a \in {"get", "put", "scan"} /\ a \in Required
  BY <1>1, MixIs, Allowed DEF CoreInv, Typed, CallsTyped
<1>5. ~Over
  BY <1>1 DEF Over, Outcomes
<1>6. BooksInv'
  <2>1. /\ Calls("flush")' = Calls("flush")
        /\ Calls("transaction.get")' = Calls("transaction.get")
        /\ Calls("transaction.put")' = Calls("transaction.put")
        /\ Calls("transaction.commit")' = Calls("transaction.commit")
        /\ Calls("transaction.conflict")' = Calls("transaction.conflict")
        /\ Calls("durable")' = Calls("durable")
        /\ Calls("put")' = Calls("put") + IF a = "put" THEN 1 ELSE 0
    BY <1>3, <1>4 DEF Apis
  <2>2. UNCHANGED <<Flushed, Over, MayWrite, Required, Optional>>
    BY <1>2 DEF Flushed, Over, MayWrite, Required, Optional
  <2>3. \A b \in Apis \ {"durable"} : Calls(b)' > 0 => b \in Required \union Optional
    BY <1>3, <1>4 DEF CoreInv, BooksInv
  <2>4. Calls("durable")' + undurable' = Calls("put")' + Calls("transaction.commit")'
    BY <1>1, <1>3, <2>1, BooksAre DEF CoreInv, BooksInv
  <2> QED
    BY <1>2, <1>5, <2>1, <2>2, <2>3, <2>4 DEF CoreInv, BooksInv
<1>7. undurable' \in Nat
  BY <1>1, <1>3
<1> QED
  BY <1>1, <1>5, <1>6, <1>7, CallsCore

LEMMA TransactionCore ==
  ASSUME CoreInv, NEW o \in {"transaction.commit", "transaction.conflict"}, Transaction(o)
  PROVE  CoreInv'
<1>1. /\ phase = "clients" /\ "transaction" \in mix
      /\ current' = Recorded({"transaction.get", "transaction.put", o})
      /\ undurable' = undurable + IF o = "transaction.commit" THEN 1 ELSE 0
      /\ UNCHANGED <<now, mix, samplerVars, taskVars>>
  BY DEF Transaction, MayCall, CallsOnly
<1>2. UNCHANGED <<total, drained, phase, durabilityDrain, stepFailed, mix>>
  BY <1>1 DEF samplerVars, windowVars, taskVars
<1>3. /\ \A b \in Apis : Calls(b)' = Calls(b)
            + IF b \in {"transaction.get", "transaction.put", o} THEN 1 ELSE 0
      /\ undurable \in Nat /\ \A b \in Apis : Calls(b) \in Nat
  BY <1>1, <1>2, BooksAre, RecordedIs
<1>4. ~Over
  BY <1>1 DEF Over, Outcomes
<1>5. BooksInv'
  <2>1. /\ Calls("flush")' = Calls("flush")
        /\ Calls("transaction.get")' = Calls("transaction.get") + 1
        /\ Calls("transaction.put")' = Calls("transaction.put") + 1
        /\ Calls("transaction.commit")'
             = Calls("transaction.commit") + IF o = "transaction.commit" THEN 1 ELSE 0
        /\ Calls("transaction.conflict")'
             = Calls("transaction.conflict") + IF o = "transaction.commit" THEN 0 ELSE 1
        /\ Calls("durable")' = Calls("durable")
        /\ Calls("put")' = Calls("put")
    BY <1>3 DEF Apis
  <2>2. UNCHANGED <<Flushed, Over, MayWrite, Required, Optional>>
    BY <1>2 DEF Flushed, Over, MayWrite, Required, Optional
  <2>3. ASSUME NEW b \in Apis \ {"durable"}, Calls(b)' > 0
        PROVE  b \in Required \union Optional
    <3>1. CASE b \in {"transaction.get", "transaction.put", o}
      BY <1>1, <3>1, Allowed
    <3>2. CASE b \notin {"transaction.get", "transaction.put", o}
      <4>1. Calls(b) > 0
        BY <1>3, <2>3, <3>2
      <4> QED
        BY <4>1 DEF CoreInv, BooksInv
    <3> QED
      BY <3>1, <3>2
  <2>4. Calls("durable")' + undurable' = Calls("put")' + Calls("transaction.commit")'
    BY <1>1, <1>3, <2>1, BooksAre DEF CoreInv, BooksInv
  <2>5. /\ Calls("transaction.get")' = Calls("transaction.commit")' + Calls("transaction.conflict")'
        /\ Calls("transaction.put")' = Calls("transaction.commit")' + Calls("transaction.conflict")'
    BY <2>1, BooksAre DEF CoreInv, BooksInv
  <2> QED
    BY <1>2, <1>4, <2>1, <2>2, <2>3, <2>4, <2>5 DEF CoreInv, BooksInv
<1>6. undurable' \in Nat
  BY <1>1, <1>3
<1> QED
  BY <1>1, <1>4, <1>5, <1>6, CallsCore

LEMMA DurableCore ==
  ASSUME CoreInv, WriteDurable
  PROVE  CoreInv'
<1>1. /\ phase \in {"clients", "boundary", "flush", "covering"} /\ undurable > 0
      /\ current' = Recorded({"durable"}) /\ undurable' = undurable - 1
      /\ UNCHANGED <<now, mix, samplerVars, taskVars>>
  BY DEF WriteDurable, CallsOnly
<1>2. UNCHANGED <<total, drained, phase, durabilityDrain, stepFailed, mix>>
  BY <1>1 DEF samplerVars, windowVars, taskVars
<1>3. /\ \A b \in Apis : Calls(b)' = Calls(b) + IF b = "durable" THEN 1 ELSE 0
      /\ undurable \in Nat
  BY <1>1, <1>2, BooksAre, RecordedIs
<1>4. ~Over
  BY <1>1 DEF Over, Outcomes
<1>5. BooksInv'
  <2>1. /\ \A b \in Apis \ {"durable"} : Calls(b)' = Calls(b)
        /\ Calls("durable")' = Calls("durable") + 1
    BY <1>3, BooksAre DEF Apis
  <2>2. UNCHANGED <<Flushed, Over, MayWrite, Required, Optional>>
    BY <1>2 DEF Flushed, Over, MayWrite, Required, Optional
  <2>3. /\ Calls("flush")' = Calls("flush")
        /\ Calls("transaction.get")' = Calls("transaction.get")
        /\ Calls("transaction.put")' = Calls("transaction.put")
        /\ Calls("transaction.commit")' = Calls("transaction.commit")
        /\ Calls("transaction.conflict")' = Calls("transaction.conflict")
        /\ Calls("put")' = Calls("put")
    BY <2>1 DEF Apis
  <2>4. Calls("durable")' + undurable' = Calls("put")' + Calls("transaction.commit")'
    BY <1>1, <1>3, <2>1, <2>3, BooksAre DEF CoreInv, BooksInv
  <2>5. \A b \in Apis \ {"durable"} : Calls(b)' > 0 => b \in Required \union Optional
    BY <2>1 DEF CoreInv, BooksInv
  <2> QED
    BY <1>2, <1>4, <2>2, <2>3, <2>4, <2>5 DEF CoreInv, BooksInv
<1>6. undurable' \in Nat
  BY <1>1, <1>3
<1> QED
  BY <1>1, <1>4, <1>5, <1>6, CallsCore


-----------------------------------------------------------------------------
(* The sampler *)

LEMMA ClockIs ==
  ASSUME Clocked
  PROVE  /\ now \in Nat /\ previousAt \in Nat /\ sampleAt \in Nat /\ since \in Nat
         /\ clientMeasurement \in Nat /\ durabilityDrain \in Nat
         /\ previousAt <= now /\ sampleAt <= now /\ since <= now
         /\ clientMeasurement <= now /\ durabilityDrain <= now
BY DEF Clocked

(* The registry is drained into the sample in progress. *)
LEMMA Draining ==
  ASSUME CallsTyped, DrainRegistry, UNCHANGED total, \A a \in Apis : drained[a] = 0
  PROVE  /\ current' \in [Apis -> Nat] /\ drained' \in [Apis -> Nat]
         /\ \A a \in Apis : Calls(a)' = Calls(a) /\ current'[a] = 0
<1>1. /\ current' \in [Apis -> Nat] /\ drained' = current
      /\ \A a \in Apis : current'[a] = 0
  BY DEF DrainRegistry, NoCalls
<1>2. /\ drained' \in [Apis -> Nat]
      /\ \A a \in Apis : total[a] \in Nat /\ current[a] \in Nat
  BY <1>1 DEF CallsTyped
<1> QED
  BY <1>1, <1>2 DEF Calls

(* What a sample drained is merged into the total. *)
LEMMA Merging ==
  ASSUME CallsTyped, total' = Merged, drained' = NoCalls, UNCHANGED current
  PROVE  /\ total' \in [Apis -> Nat] /\ drained' \in [Apis -> Nat]
         /\ \A a \in Apis : /\ total[a] \in Nat /\ drained[a] \in Nat
                            /\ total'[a] = total[a] + drained[a]
                            /\ drained'[a] = 0 /\ Calls(a)' = Calls(a)
<1>1. /\ drained' \in [Apis -> Nat] /\ \A a \in Apis : drained'[a] = 0
  BY DEF NoCalls
<1>2. \A a \in Apis : total[a] \in Nat /\ current[a] \in Nat /\ drained[a] \in Nat
  BY DEF CallsTyped
<1>3. \A a \in Apis : total[a] + drained[a] \in Nat
  BY <1>2
<1>4. total' \in [Apis -> Nat] /\ \A a \in Apis : total'[a] = total[a] + drained[a]
  BY <1>3 DEF Merged
<1> QED
  BY <1>1, <1>2, <1>4 DEF Calls

LEMMA LoadIs ==
  ASSUME HttpTyped, StoreTyped
  PROVE  /\ LoadAttempts => partial' \in [Methods -> [Published -> Nat]]
         /\ Loaded \in [Methods -> [Published -> Nat]]
         /\ Zero(Published) \in [Methods -> [Published -> Nat]]
<1>1. Published \subseteq Counters /\ "bytes" \in Counters
  BY DEF Published, Counters
<1>2. \A m \in Methods : \A k \in Published : counters[m][k] \in Nat
  BY <1>1 DEF HttpTyped
<1>3. LoadAttempts => partial' \in [Methods -> [Published -> Nat]]
  BY <1>2 DEF LoadAttempts
<1>4. ASSUME NEW m \in Methods
      PROVE  [partial[m] EXCEPT !.bytes = counters[m].bytes] \in [Published -> Nat]
  <2>1. partial[m] \in [Published -> Nat]
    BY DEF StoreTyped
  <2>2. counters[m].bytes \in Nat
    BY <1>2 DEF Published
  <2> QED
    BY <2>1, <2>2
<1>5. Loaded \in [Methods -> [Published -> Nat]]
  BY <1>4 DEF Loaded
<1>6. Zero(Published) \in [Methods -> [Published -> Nat]]
  BY DEF Zero
<1> QED
  BY <1>3, <1>5, <1>6

(* What each step of the sampler keeps: the calls, wherever they are, and the task. *)
LEMMA SamplerStep ==
  ASSUME CoreInv, SamplerOnly, samplerState # "returned", samplerState' \in SamplerStates,
         CallsTyped', StoreTyped', WindowsTyped',
         previousAt' \in 0 .. now, sampleAt' \in 0 .. now,
         \A a \in Apis : Calls(a)' = Calls(a),
         SamplerInv', WindowsInv'
  PROVE  CoreInv'
<1>1. UNCHANGED <<now, mix, undurable, stop, rateActive, phase, stepFailed, since,
                  clientMeasurement, durabilityDrain>>
  BY DEF SamplerOnly, taskVars
<1>2. phase \notin Outcomes
  BY DEF CoreInv, PhaseInv
<1>3. Typed'
  BY <1>1 DEF CoreInv, Typed, Clocked, StateTyped
<1>4. PhaseInv'
  BY <1>1, <1>2 DEF CoreInv, PhaseInv, Over, MayWrite
<1>5. BooksInv'
  <2>1. UNCHANGED <<Flushed, Over, MayWrite, Required, Optional>>
    BY <1>1 DEF Flushed, Over, MayWrite, Required, Optional
  <2>2. /\ Calls("flush")' = Calls("flush") /\ Calls("durable")' = Calls("durable")
        /\ Calls("put")' = Calls("put")
        /\ Calls("transaction.get")' = Calls("transaction.get")
        /\ Calls("transaction.put")' = Calls("transaction.put")
        /\ Calls("transaction.commit")' = Calls("transaction.commit")
        /\ Calls("transaction.conflict")' = Calls("transaction.conflict")
    BY DEF Apis
  <2> QED
    BY <1>1, <2>1, <2>2 DEF CoreInv, BooksInv
<1>6. SuccessIsPublishable'
  BY <1>1, <1>2 DEF SuccessIsPublishable, Outcomes
<1> QED
  BY <1>3, <1>4, <1>5, <1>6 DEF CoreInv

LEMMA StartsCore ==
  ASSUME CoreInv, HttpTyped, SamplerStarts \/ BaselineTaken
  PROVE  CoreInv'
<1>1. /\ samplerState \in {"start", "baseline"} /\ samplerState' \in {"baseline", "wait"}
      /\ samplerState' = "baseline" => samplerState = "start"
      /\ UNCHANGED <<current, sampleAt, drained, previousAt, total, rateWindows,
                     latencyWindows, resources>>
      /\ SamplerOnly
  BY DEF SamplerStarts, BaselineTaken, windowVars
<1>2. UNCHANGED <<now, mix, undurable, stop, rateActive, phase, stepFailed, since,
                  clientMeasurement, durabilityDrain>>
  BY <1>1 DEF SamplerOnly, taskVars
<1>3. StoreTyped'
  BY LoadIs DEF SamplerStarts, BaselineTaken, windowVars, CoreInv, Typed, StoreTyped
<1>4. CallsTyped' /\ WindowsTyped' /\ previousAt' \in 0 .. now /\ sampleAt' \in 0 .. now
  BY <1>1, <1>2 DEF CoreInv, Typed, CallsTyped, WindowsTyped, Clocked
<1>5. \A a \in Apis : Calls(a)' = Calls(a)
  BY <1>1 DEF Calls
<1>6. SamplerInv'
  BY <1>1, <1>2 DEF CoreInv, SamplerInv
<1>7. WindowsInv'
  BY <1>1, <1>2 DEF CoreInv, WindowsInv
<1>8. samplerState # "returned" /\ samplerState' \in SamplerStates
  BY <1>1 DEF SamplerStates
<1> QED
  BY <1>1, <1>3, <1>4, <1>5, <1>6, <1>7, <1>8, SamplerStep

(* The registry is drained at the beginning of a sample and of the finish. *)
LEMMA BeginsCore ==
  ASSUME CoreInv, HttpTyped, SampleBegins \/ FinishBegins
  PROVE  CoreInv'
<1>1. /\ samplerState \in {"wait", "finish"} /\ DrainRegistry /\ SamplerOnly
      /\ UNCHANGED <<previousAt, total, rateWindows, latencyWindows, resources, storeStart,
                     storeEnd>>
      /\ \/ samplerState' = "sample" /\ previousAt < now /\ sampleAt' = now
         \/ samplerState' = "final" /\ stop /\ sampleAt' = sampleAt
  BY DEF SampleBegins, FinishBegins, windowVars, CoreInv, SamplerInv
<1>2. UNCHANGED <<now, mix, undurable, stop, rateActive, phase, stepFailed, since,
                  clientMeasurement, durabilityDrain>>
  BY <1>1 DEF SamplerOnly, taskVars
<1>3. CallsTyped /\ Clocked /\ StoreTyped
  BY DEF CoreInv, Typed
<1>4. \A a \in Apis : drained[a] = 0
  BY <1>1 DEF CoreInv, SamplerInv
<1>5. /\ current' \in [Apis -> Nat] /\ drained' \in [Apis -> Nat]
      /\ \A a \in Apis : Calls(a)' = Calls(a) /\ current'[a] = 0
  BY <1>1, <1>3, <1>4, Draining
<1>6. CallsTyped' /\ WindowsTyped'
  BY <1>1, <1>2, <1>5 DEF CoreInv, Typed, CallsTyped, WindowsTyped
<1>7. previousAt' \in 0 .. now /\ sampleAt' \in 0 .. now
  BY <1>1, <1>3 DEF Clocked
<1>8. StoreTyped'
  BY <1>1, <1>3, LoadIs DEF SampleBegins, FinishBegins, StoreTyped
<1>9. SamplerInv'
  BY <1>1, <1>2, <1>5 DEF SamplerInv
<1>10. WindowsInv'
  BY <1>1, <1>2 DEF CoreInv, WindowsInv
<1>11. samplerState # "returned" /\ samplerState' \in SamplerStates
  BY <1>1 DEF SamplerStates
<1> QED
  BY <1>1, <1>5, <1>6, <1>7, <1>8, <1>9, <1>10, <1>11, SamplerStep

(* The latency window of a sample has each API that it adds to the total. *)
LEMMA SampledMore ==
  ASSUME CallsTyped, Sampled(latencyWindows, total), NEW at,
         \A a \in Apis : total'[a] = total[a] + drained[a],
         \A i \in DOMAIN latencyWindows :
           i \in DOMAIN latencyWindows' /\ latencyWindows'[i] = latencyWindows[i],
         NEW n \in DOMAIN latencyWindows', latencyWindows'[n] = LatencyWindow(at)
  PROVE  Sampled(latencyWindows', total')
<1>1. ASSUME NEW a \in Apis, total'[a] > 0
      PROVE  \E i \in DOMAIN latencyWindows' : a \in latencyWindows'[i].sampled
  <2>1. CASE total[a] > 0
    <3>1. PICK i \in DOMAIN latencyWindows : a \in latencyWindows[i].sampled
      BY <2>1 DEF Sampled
    <3> QED
      BY <3>1
  <2>2. CASE ~(total[a] > 0)
    <3>1. drained[a] > 0
      <4>1. total[a] \in Nat /\ drained[a] \in Nat
        BY DEF CallsTyped
      <4> QED
        BY <1>1, <2>2, <4>1
    <3>2. a \in latencyWindows'[n].sampled
      BY <3>1 DEF LatencyWindow
    <3> QED
      BY <3>2
  <2> QED
    BY <2>1, <2>2
<1> QED
  BY <1>1 DEF Sampled

(* A sample that began at an instant ends, or the sampler finishes at it. *)
LEMMA EndsCore ==
  ASSUME CoreInv, HttpTyped, SampleEnds \/ FinishEnds
  PROVE  CoreInv'
<1>1. PICK at \in Nat :
        /\ previousAt < at /\ at <= now /\ previousAt' = at
        /\ latencyWindows' = Append(latencyWindows, LatencyWindow(at))
        /\ rateWindows' = IF rateActive THEN Append(rateWindows, Window(at)) ELSE rateWindows
        /\ \/ /\ samplerState = "sample" /\ resources' = Append(resources, Window(at))
              /\ samplerState' = IF stop THEN "finish" ELSE "wait"
           \/ /\ samplerState = "final" /\ UNCHANGED resources
              /\ samplerState' = "returned" /\ at = now
  <2>1. CASE SampleEnds
    <3>1. samplerState = "sample" /\ previousAt < sampleAt /\ sampleAt <= now /\ sampleAt \in Nat
      BY <2>1, ClockIs DEF SampleEnds, CoreInv, SamplerInv, Typed
    <3> QED
      BY <2>1, <3>1 DEF SampleEnds
  <2>2. CASE FinishEnds
    <3>1. now \in Nat
      BY ClockIs DEF CoreInv, Typed
    <3> QED
      BY <2>2, <3>1 DEF FinishEnds
  <2> QED
    BY <2>1, <2>2
<1>2. /\ total' = Merged /\ drained' = NoCalls /\ UNCHANGED current /\ SamplerOnly
      /\ sampleAt' \in {0, sampleAt}
      /\ UNCHANGED <<now, mix, undurable, stop, rateActive, phase, stepFailed, since,
                     clientMeasurement, durabilityDrain>>
  BY DEF SampleEnds, FinishEnds, SamplerOnly, taskVars
<1>3. Clocked /\ CallsTyped /\ StoreTyped /\ WindowsTyped /\ WindowsInv /\ SamplerInv /\ PhaseInv
  BY DEF CoreInv, Typed
<1>4. /\ total' \in [Apis -> Nat] /\ drained' \in [Apis -> Nat]
      /\ \A a \in Apis : /\ total'[a] = total[a] + drained[a]
                         /\ drained'[a] = 0 /\ Calls(a)' = Calls(a)
  BY <1>2, <1>3, Merging
<1>5. /\ Window(at) \in RateWindow /\ Window(at).elapsed = at
      /\ Window(at).duration = at - previousAt
      /\ LatencyWindow(at) \in LatencyWindows /\ LatencyWindow(at).elapsed = at
      /\ LatencyWindow(at).duration = at - previousAt
  <2>1. at - previousAt \in Nat
    BY <1>1, <1>3, ClockIs
  <2> QED
    BY <2>1 DEF Window, LatencyWindow, RateWindow, LatencyWindows
<1>6. /\ \A w \in RateWindow : w.elapsed \in Nat /\ w.duration \in Nat
      /\ \A w \in LatencyWindows : w.elapsed \in Nat /\ w.duration \in Nat
      /\ previousAt \in Nat
  BY <1>3, ClockIs DEF RateWindow, LatencyWindows
<1>7. /\ latencyWindows \in Seq(LatencyWindows)
      /\ rateWindows \in Seq(RateWindow) /\ resources \in Seq(RateWindow)
  BY <1>3 DEF WindowsTyped
<1>8. /\ latencyWindows' \in Seq(LatencyWindows) /\ latencyWindows' # <<>>
      /\ Timeline(latencyWindows', at) /\ Reaches(latencyWindows', at)
      /\ \A i \in DOMAIN latencyWindows :
           i \in DOMAIN latencyWindows' /\ latencyWindows'[i] = latencyWindows[i]
      /\ \E n \in DOMAIN latencyWindows' : latencyWindows'[n] = LatencyWindow(at)
  <2>1. Timeline(latencyWindows, previousAt) /\ Reaches(latencyWindows, previousAt)
    BY <1>3 DEF WindowsInv
  <2>2. PICK w \in LatencyWindows :
          w = LatencyWindow(at) /\ w.elapsed = at /\ w.duration = at - previousAt
    BY <1>5
  <2>3. previousAt < at /\ latencyWindows' = Append(latencyWindows, w)
    BY <1>1, <2>2
  <2>4. Extended(LatencyWindows, latencyWindows, Append(latencyWindows, w), w, at)
    BY <1>6, <1>7, <2>1, <2>2, <2>3, WindowAppended
  <2> QED
    BY <2>2, <2>3, <2>4 DEF Extended
<1>9. /\ rateWindows' \in Seq(RateWindow) /\ Timeline(rateWindows', at)
      /\ rateActive => Reaches(rateWindows', at)
      /\ ~rateActive => rateWindows' = rateWindows
  <2>1. CASE rateActive
    <3>1. PICK w \in RateWindow :
            w = Window(at) /\ w.elapsed = at /\ w.duration = at - previousAt
      BY <1>5
    <3>2. rateWindows' = Append(rateWindows, w) /\ previousAt < at
      BY <1>1, <2>1, <3>1
    <3>3. Timeline(rateWindows, previousAt) /\ Reaches(rateWindows, previousAt)
      BY <1>3, <2>1 DEF WindowsInv
    <3>4. Extended(RateWindow, rateWindows, Append(rateWindows, w), w, at)
      BY <1>6, <1>7, <3>1, <3>2, <3>3, WindowAppended
    <3> QED
      BY <2>1, <3>2, <3>4 DEF Extended
  <2>2. CASE ~rateActive
    <3>1. rateWindows' = rateWindows
      BY <1>1, <2>2
    <3>2. Timeline(rateWindows, previousAt)
      BY <1>3 DEF WindowsInv
    <3>3. Timeline(rateWindows, at)
      BY <1>1, <1>6, <1>7, <3>2, TimelineLater
    <3> QED
      BY <1>7, <2>2, <3>1, <3>3
  <2> QED
    BY <2>1, <2>2
<1>10. /\ resources' \in Seq(RateWindow) /\ Timeline(resources', at)
       /\ samplerState' # "returned" => Reaches(resources', at) /\ resources' # <<>>
       /\ samplerState' = "returned" => resources' = resources
  <2>0. Timeline(resources, previousAt)
    BY <1>3 DEF WindowsInv
  <2>1. CASE samplerState = "sample"
    <3>1. PICK w \in RateWindow :
            w = Window(at) /\ w.elapsed = at /\ w.duration = at - previousAt
      BY <1>5
    <3>2. resources' = Append(resources, w) /\ samplerState' # "returned" /\ previousAt < at
      BY <1>1, <2>1, <3>1
    <3>3. Reaches(resources, previousAt)
      BY <1>3, <2>1 DEF WindowsInv
    <3>4. Extended(RateWindow, resources, Append(resources, w), w, at)
      BY <1>6, <1>7, <2>0, <3>1, <3>2, <3>3, WindowAppended
    <3> QED
      BY <3>2, <3>4 DEF Extended
  <2>2. CASE samplerState = "final"
    <3>1. resources' = resources /\ samplerState' = "returned"
      BY <1>1, <2>2
    <3>2. Timeline(resources, at)
      BY <1>1, <1>6, <1>7, <2>0, TimelineLater
    <3> QED
      BY <1>7, <3>1, <3>2
  <2> QED
    BY <1>1, <2>1, <2>2
<1>11. Sampled(latencyWindows', total')
  <2>1. PICK n \in DOMAIN latencyWindows' : latencyWindows'[n] = LatencyWindow(at)
    BY <1>8
  <2>2. Sampled(latencyWindows, total)
    BY <1>3 DEF WindowsInv
  <2> QED
    BY <1>3, <1>4, <1>8, <2>1, <2>2, SampledMore
<1>12. CallsTyped'
  BY <1>2, <1>3, <1>4 DEF CallsTyped
<1>13. WindowsTyped'
  BY <1>8, <1>9, <1>10 DEF WindowsTyped
<1>14. StoreTyped'
  BY <1>3, LoadIs DEF SampleEnds, FinishEnds, StoreTyped
<1>15. previousAt' \in 0 .. now /\ sampleAt' \in 0 .. now
  BY <1>1, <1>2, <1>3 DEF Clocked
<1>16. rateWindows' # <<>> => resources' # <<>>
  <2>1. CASE samplerState = "sample"
    BY <1>1, <1>10, <2>1
  <2>2. CASE samplerState = "final"
    <3>1. stop /\ ~rateActive
      BY <1>3, <2>2 DEF SamplerInv, PhaseInv, Over, Outcomes
    <3> QED
      BY <1>1, <1>3, <2>2, <3>1 DEF WindowsInv
  <2> QED
    BY <1>1, <2>1, <2>2
<1>17. WindowsInv'
  BY <1>1, <1>2, <1>8, <1>9, <1>10, <1>11, <1>16 DEF WindowsInv
<1>18. SamplerInv'
  <2>1. samplerState = "final" => stop /\ \A a \in Apis : current'[a] = 0
    BY <1>2, <1>3 DEF SamplerInv
  <2>2. clientMeasurement' + durabilityDrain' <= now /\ at > 0
    BY <1>1, <1>2, <1>3, ClockIs DEF PhaseInv
  <2> QED
    BY <1>1, <1>2, <1>4, <1>8, <2>1, <2>2 DEF SamplerInv
<1>19. samplerState # "returned" /\ samplerState' \in SamplerStates
  BY <1>1 DEF SamplerStates
<1> QED
  BY <1>2, <1>4, <1>12, <1>13, <1>14, <1>15, <1>17, <1>18, <1>19, SamplerStep

-----------------------------------------------------------------------------
(* execute *)

(* What each step of the task keeps: the sampler and its windows. *)
LEMMA TaskStep ==
  ASSUME CoreInv, TaskOnly, CallsTyped', StateTyped',
         since' \in 0 .. now, clientMeasurement' \in 0 .. now, durabilityDrain' \in 0 .. now,
         rateActive' => rateActive,
         PhaseInv', SamplerInv', BooksInv', SuccessIsPublishable'
  PROVE  CoreInv'
<1>1. UNCHANGED <<now, samplerState, sampleAt, drained, partial, previousAt, total,
                  rateWindows, latencyWindows, resources, storeStart, storeEnd>>
  BY DEF TaskOnly, samplerVars, windowVars
<1>2. Typed'
  BY <1>1 DEF CoreInv, Typed, Clocked, StoreTyped, WindowsTyped
<1>3. WindowsInv'
  BY <1>1 DEF CoreInv, WindowsInv
<1> QED
  BY <1>2, <1>3 DEF CoreInv

(* A step that records no call keeps the sums. *)
LEMMA SameCalls ==
  ASSUME CoreInv, TaskOnly, UNCHANGED current, Flushed' = Flushed,
         Over' /\ ~stepFailed' /\ MayWrite => undurable = 0
  PROVE  BooksInv' /\ CallsTyped'
<1>1. UNCHANGED <<mix, undurable, drained, total>>
  BY DEF TaskOnly, samplerVars, windowVars
<1>2. \A a \in Apis : Calls(a)' = Calls(a)
  BY <1>1 DEF Calls
<1>3. UNCHANGED <<MayWrite, Required, Optional>>
  BY <1>1 DEF MayWrite, Required, Optional
<1>4. /\ Calls("flush")' = Calls("flush") /\ Calls("durable")' = Calls("durable")
      /\ Calls("put")' = Calls("put")
      /\ Calls("transaction.get")' = Calls("transaction.get")
      /\ Calls("transaction.put")' = Calls("transaction.put")
      /\ Calls("transaction.commit")' = Calls("transaction.commit")
      /\ Calls("transaction.conflict")' = Calls("transaction.conflict")
  BY <1>2 DEF Apis
<1>5. BooksInv'
  BY <1>1, <1>2, <1>3, <1>4 DEF CoreInv, BooksInv
<1>6. CallsTyped'
  BY <1>1 DEF CoreInv, Typed, CallsTyped
<1> QED
  BY <1>5, <1>6

LEMMA ClientsStartCore ==
  ASSUME CoreInv, ClientsStart
  PROVE  CoreInv'
<1>1. /\ phase = "baseline" /\ samplerState \notin {"start", "baseline"} /\ phase' = "clients"
      /\ since' = now /\ TaskOnly
      /\ UNCHANGED <<current, stop, rateActive, stepFailed, clientMeasurement, durabilityDrain>>
      /\ UNCHANGED <<now, mix, samplerState, drained, previousAt, sampleAt, latencyWindows>>
  BY DEF ClientsStart, TaskOnly, samplerVars, windowVars
<1>2. Clocked /\ StateTyped /\ PhaseInv /\ SamplerInv
  BY DEF CoreInv, Typed
<1>3. BooksInv' /\ CallsTyped'
  <2>1. Flushed' = Flushed /\ ~Over'
    BY <1>1 DEF Flushed, Over, Outcomes
  <2> QED
    BY <1>1, <2>1, SameCalls
<1>4. PhaseInv' /\ SamplerInv'
  BY <1>1, <1>2, ClockIs DEF PhaseInv, SamplerInv, Over, MayWrite, Outcomes
<1>5. StateTyped' /\ SuccessIsPublishable'
  BY <1>1, <1>2 DEF StateTyped, Phases, SuccessIsPublishable
<1>6. since' \in 0 .. now /\ clientMeasurement' \in 0 .. now /\ durabilityDrain' \in 0 .. now
  BY <1>1, <1>2 DEF Clocked
<1> QED
  BY <1>1, <1>3, <1>4, <1>5, <1>6, TaskStep

LEMMA ClientsEndCore ==
  ASSUME CoreInv, NEW ok \in BOOLEAN, ClientsEnd(ok)
  PROVE  CoreInv'
<1>1. /\ phase = "clients" /\ stepFailed' \in BOOLEAN /\ phase' = "boundary"
      /\ clientMeasurement' = now - since /\ TaskOnly
      /\ UNCHANGED <<current, stop, rateActive, since, durabilityDrain>>
      /\ UNCHANGED <<now, mix, samplerState, drained, previousAt, sampleAt, latencyWindows>>
  BY DEF ClientsEnd, TaskOnly, samplerVars, windowVars
<1>2. Clocked /\ StateTyped /\ PhaseInv /\ SamplerInv
  BY DEF CoreInv, Typed
<1>3. BooksInv' /\ CallsTyped'
  <2>1. Flushed' = Flushed /\ ~Over'
    BY <1>1 DEF Flushed, Over, Outcomes
  <2> QED
    BY <1>1, <2>1, SameCalls
<1>4. since' \in 0 .. now /\ clientMeasurement' \in 0 .. now /\ durabilityDrain' \in 0 .. now
  BY <1>1, <1>2 DEF Clocked
<1>5. PhaseInv'
  <2>1. durabilityDrain = 0 /\ ~stop /\ rateActive
    BY <1>1, <1>2 DEF PhaseInv, Over, Outcomes
  <2>2. clientMeasurement' + durabilityDrain' <= now'
    BY <1>1, <1>4, <2>1
  <2> QED
    BY <1>1, <2>1, <2>2 DEF PhaseInv, Over, Outcomes
<1>6. SamplerInv'
  <2>1. samplerState \notin {"start", "baseline", "finish", "final", "returned"}
    BY <1>1, <1>2 DEF PhaseInv, SamplerInv, Over, Outcomes
  <2> QED
    BY <1>1, <1>2, <2>1 DEF SamplerInv
<1>7. StateTyped' /\ SuccessIsPublishable'
  BY <1>1, <1>2 DEF StateTyped, Phases, SuccessIsPublishable
<1> QED
  BY <1>1, <1>3, <1>4, <1>5, <1>6, <1>7, TaskStep

LEMMA BoundaryCore ==
  ASSUME CoreInv, Boundary
  PROVE  CoreInv'
<1>1. /\ phase = "boundary" /\ rateActive' = FALSE /\ since' = now /\ TaskOnly
      /\ phase' = IF MayWrite /\ ~stepFailed THEN "flush" ELSE "stopping"
      /\ stop' = ~(MayWrite /\ ~stepFailed)
      /\ UNCHANGED <<current, stepFailed, clientMeasurement, durabilityDrain>>
      /\ UNCHANGED <<now, mix, undurable, samplerState, drained, previousAt, sampleAt,
                     latencyWindows>>
  BY DEF Boundary, TaskOnly, samplerVars, windowVars
<1>2. Clocked /\ StateTyped /\ PhaseInv /\ SamplerInv
  BY DEF CoreInv, Typed
<1>3. MayWrite' = MayWrite /\ (Over' /\ ~stepFailed' => ~MayWrite)
  BY <1>1 DEF MayWrite, Over, Outcomes
<1>4. BooksInv' /\ CallsTyped'
  <2>1. Flushed' = Flushed
    BY <1>1 DEF Flushed
  <2> QED
    BY <1>1, <1>3, <2>1, SameCalls
<1>5. since' \in 0 .. now /\ clientMeasurement' \in 0 .. now /\ durabilityDrain' \in 0 .. now
  BY <1>1, <1>2 DEF Clocked
<1>6. PhaseInv'
  <2>1. durabilityDrain = 0 /\ clientMeasurement <= now
    BY <1>1, <1>2, ClockIs DEF PhaseInv, Over, Outcomes
  <2>2. clientMeasurement' + durabilityDrain' <= now'
    BY <1>1, <1>2, <2>1 DEF PhaseInv
  <2>3. CASE MayWrite /\ ~stepFailed
    BY <1>1, <1>3, <2>1, <2>2, <2>3 DEF PhaseInv, Over, Outcomes
  <2>4. CASE ~(MayWrite /\ ~stepFailed)
    <3>1. phase' = "stopping" /\ stop' = TRUE /\ rateActive' = FALSE /\ durabilityDrain' = 0
      BY <1>1, <2>1, <2>4
    <3>2. Over' /\ ~(~stepFailed' /\ MayWrite')
      BY <1>1, <1>3, <2>4, <3>1 DEF Over
    <3> QED
      BY <2>2, <3>1, <3>2 DEF PhaseInv, Outcomes
  <2> QED
    BY <2>3, <2>4
<1>7. SamplerInv'
  <2>1. samplerState \notin {"start", "baseline", "finish", "final", "returned"}
    BY <1>1, <1>2 DEF PhaseInv, SamplerInv, Over, Outcomes
  <2> QED
    BY <1>1, <1>2, <2>1 DEF SamplerInv
<1>8. StateTyped' /\ SuccessIsPublishable'
  BY <1>1, <1>2 DEF StateTyped, Phases, SuccessIsPublishable
<1> QED
  BY <1>1, <1>4, <1>5, <1>6, <1>7, <1>8, TaskStep

LEMMA FlushCore ==
  ASSUME CoreInv, NEW ok \in BOOLEAN, FlushEnds(ok)
  PROVE  CoreInv'
<1>1. /\ phase = "flush" /\ since < now /\ current' = Recorded({"flush"}) /\ stepFailed' = ~ok
      /\ \/ ok /\ phase' = "covering" /\ UNCHANGED <<stop, durabilityDrain>>
         \/ ~ok /\ phase' = "stopping" /\ stop' = TRUE /\ durabilityDrain' = now - since
      /\ UNCHANGED <<rateActive, since, clientMeasurement>> /\ TaskOnly
      /\ UNCHANGED <<now, mix, undurable, total, samplerState, drained, previousAt, sampleAt,
                     latencyWindows>>
  BY DEF FlushEnds, StopsSampler, TaskOnly, samplerVars, windowVars
<1>2. Clocked /\ CallsTyped /\ StateTyped /\ PhaseInv /\ SamplerInv /\ BooksInv
  BY DEF CoreInv, Typed
<1>3. /\ durabilityDrain = 0 /\ ~stop /\ ~rateActive /\ MayWrite /\ clientMeasurement <= since
      /\ samplerState \notin {"start", "baseline", "finish", "final", "returned"}
  BY <1>1, <1>2 DEF PhaseInv, SamplerInv, Over, Outcomes
<1>4. now - since \in Nat \ {0} /\ now - since <= now /\ clientMeasurement + (now - since) <= now
  BY <1>1, <1>2, <1>3, ClockIs
<1>5. UNCHANGED <<MayWrite, Required, Optional>> /\ MayWrite' /\ Flushed' /\ ~Flushed
  <2>1. Flushed'
    <3>1. phase' = "covering" \/ durabilityDrain' = now - since
      BY <1>1
    <3>2. now - since > 0
      BY <1>4
    <3> QED
      BY <3>1, <3>2 DEF Flushed
  <2> QED
    BY <1>1, <1>2, <1>3, <2>1 DEF MayWrite, Required, Optional, Flushed
<1>6. /\ current' \in [Apis -> Nat]
      /\ \A a \in Apis : Calls(a) \in Nat /\ Calls(a)' = Calls(a) + IF a = "flush" THEN 1 ELSE 0
  BY <1>1, <1>2, RecordedIs
<1>7. CallsTyped'
  BY <1>1, <1>2, <1>6 DEF CallsTyped
<1>8. BooksInv'
  <2>1. /\ \A a \in Apis \ {"flush"} : Calls(a)' = Calls(a)
        /\ Calls("flush")' = Calls("flush") + 1 /\ Calls("flush") = 0
    BY <1>2, <1>5, <1>6 DEF Apis, BooksInv
  <2>2. /\ Calls("durable")' = Calls("durable")
        /\ Calls("transaction.get")' = Calls("transaction.get")
        /\ Calls("transaction.put")' = Calls("transaction.put")
        /\ Calls("transaction.commit")' = Calls("transaction.commit")
        /\ Calls("transaction.conflict")' = Calls("transaction.conflict")
        /\ Calls("put")' = Calls("put")
    BY <2>1 DEF Apis
  <2>3. \A a \in Apis \ {"durable"} : Calls(a)' > 0 => a \in Required \union Optional
    <3>1. "flush" \in Required
      BY <1>3, Allowed
    <3> QED
      BY <1>2, <2>1, <3>1 DEF BooksInv
  <2>4. ~(Over' /\ ~stepFailed')
    BY <1>1 DEF Over, Outcomes
  <2> QED
    BY <1>1, <1>2, <1>5, <2>1, <2>2, <2>3, <2>4 DEF BooksInv
<1>9. since' \in 0 .. now /\ clientMeasurement' \in 0 .. now /\ durabilityDrain' \in 0 .. now
  BY <1>1, <1>2, <1>4 DEF Clocked
<1>10. PhaseInv'
  <2>1. CASE ok
    <3>1. /\ phase' = "covering" /\ ~stepFailed' /\ durabilityDrain' = 0
          /\ ~stop' /\ ~rateActive' /\ MayWrite'
      <4>1. /\ stepFailed' = ~ok /\ phase' = "covering" /\ stop' = stop
            /\ rateActive' = rateActive /\ durabilityDrain' = durabilityDrain
        BY <1>1, <2>1
      <4> QED
        BY <1>3, <1>5, <2>1, <4>1
    <3>2. ~Over' /\ clientMeasurement' <= since' /\ since' < now'
      BY <1>1, <1>3, <3>1 DEF Over, Outcomes
    <3>3. clientMeasurement' + durabilityDrain' <= now'
      <4>1. clientMeasurement' = clientMeasurement /\ now' = now
        BY <1>1
      <4>2. clientMeasurement \in Nat /\ now \in Nat /\ clientMeasurement <= now
        BY <1>2, ClockIs
      <4> QED
        BY <3>1, <4>1, <4>2
    <3> QED
      BY <3>1, <3>2, <3>3 DEF PhaseInv, Outcomes
  <2>2. CASE ~ok
    BY <1>1, <1>2, <1>3, <1>4, <1>5, <2>2 DEF PhaseInv, Over, Outcomes
  <2> QED
    BY <2>1, <2>2
<1>11. SamplerInv'
  BY <1>1, <1>2, <1>3 DEF SamplerInv
<1>12. StateTyped' /\ SuccessIsPublishable'
  BY <1>1, <1>2 DEF StateTyped, Phases, SuccessIsPublishable
<1> QED
  BY <1>1, <1>7, <1>8, <1>9, <1>10, <1>11, <1>12, TaskStep

LEMMA CoveredCore ==
  ASSUME CoreInv, NEW ok \in BOOLEAN, Covered(ok)
  PROVE  CoreInv'
<1>1. /\ phase = "covering" /\ (ok => undurable = 0) /\ stepFailed' = ~ok
      /\ phase' = "stopping" /\ stop' = TRUE /\ durabilityDrain' = now - since
      /\ UNCHANGED <<current, rateActive, since, clientMeasurement>> /\ TaskOnly
      /\ UNCHANGED <<now, mix, undurable, samplerState, drained, previousAt, sampleAt,
                     latencyWindows>>
  BY DEF Covered, StopsSampler, TaskOnly, samplerVars, windowVars
<1>2. Clocked /\ StateTyped /\ PhaseInv /\ SamplerInv
  BY DEF CoreInv, Typed
<1>3. /\ since < now /\ ~rateActive /\ MayWrite /\ clientMeasurement <= since
      /\ MayWrite' = MayWrite
      /\ samplerState \notin {"start", "baseline", "finish", "final", "returned"}
  BY <1>1, <1>2 DEF PhaseInv, SamplerInv, Over, Outcomes, MayWrite
<1>4. now - since \in Nat \ {0} /\ now - since <= now /\ clientMeasurement + (now - since) <= now
  BY <1>1, <1>2, <1>3, ClockIs
<1>5. BooksInv' /\ CallsTyped'
  <2>1. Flushed' = Flushed
    <3>1. durabilityDrain' > 0
      BY <1>1, <1>4
    <3> QED
      BY <1>1, <3>1 DEF Flushed
  <2> QED
    BY <1>1, <2>1, SameCalls
<1>6. since' \in 0 .. now /\ clientMeasurement' \in 0 .. now /\ durabilityDrain' \in 0 .. now
  BY <1>1, <1>2, <1>4 DEF Clocked
<1>7. PhaseInv'
  BY <1>1, <1>2, <1>3, <1>4 DEF PhaseInv, Over, Outcomes
<1>8. SamplerInv'
  BY <1>1, <1>2, <1>3 DEF SamplerInv
<1>9. StateTyped' /\ SuccessIsPublishable'
  BY <1>1, <1>2 DEF StateTyped, Phases, SuccessIsPublishable
<1> QED
  BY <1>1, <1>5, <1>6, <1>7, <1>8, <1>9, TaskStep

-----------------------------------------------------------------------------
(* The judgement *)

(* Once the sampler has returned, all calls are in the total. *)
LEMMA TotalIs ==
  ASSUME CoreInv, samplerState = "returned"
  PROVE  \A a \in Apis : Calls(a) = total[a] /\ total[a] \in Nat
<1>1. \A a \in Apis : current[a] = 0 /\ drained[a] = 0 /\ total[a] \in Nat
  BY DEF CoreInv, SamplerInv, Typed, CallsTyped
<1> QED
  BY <1>1 DEF Calls

LEMMA RowsValid ==
  ASSUME CoreInv, samplerState = "returned", phase = "stopping", ~stepFailed,
         Required \subseteq OperationRows
  PROVE  ValidApplicationRows
<1>1. \A a \in Apis : Calls(a) = total[a] /\ total[a] \in Nat
  BY TotalIs
<1>2. /\ "put" \in Apis /\ "flush" \in Apis /\ "durable" \in Apis /\ "transaction.get" \in Apis
      /\ "transaction.put" \in Apis /\ "transaction.commit" \in Apis
      /\ "transaction.conflict" \in Apis
  BY DEF Apis
<1>3. /\ total["put"] \in Nat /\ total["flush"] \in Nat /\ total["durable"] \in Nat
      /\ total["transaction.get"] \in Nat /\ total["transaction.put"] \in Nat
      /\ total["transaction.commit"] \in Nat /\ total["transaction.conflict"] \in Nat
      /\ undurable \in Nat
  BY <1>1, <1>2 DEF CoreInv, Typed, CallsTyped
<1>4. /\ total["flush"] = IF Flushed THEN 1 ELSE 0
      /\ total["durable"] + undurable = total["put"] + total["transaction.commit"]
      /\ total["transaction.get"] = total["transaction.commit"] + total["transaction.conflict"]
      /\ total["transaction.put"] = total["transaction.commit"] + total["transaction.conflict"]
      /\ MayWrite => undurable = 0
  BY <1>1, <1>2 DEF CoreInv, BooksInv, Over
<1>5. /\ mix \subseteq {"get", "put", "scan", "transaction"}
      /\ ~("put" \in mix /\ "transaction" \in mix)
  BY MixIs DEF CoreInv, Typed, CallsTyped
<1>6. \A a \in Apis \ {"durable"} : total[a] > 0 => a \in Required \union Optional
  BY <1>1 DEF CoreInv, BooksInv
<1>7. OperationRows \subseteq Required \union Optional
  BY <1>6 DEF OperationRows
<1>8. "put" \notin mix => total["put"] = 0
  <2>1. "put" \notin mix => "put" \notin Required \union Optional
    BY DEF Required, Optional
  <2> QED
    BY <1>2, <1>3, <1>6, <2>1
<1>9. "transaction" \notin mix => total["transaction.commit"] = 0
  <2>1. "transaction" \notin mix => "transaction.commit" \notin Required \union Optional
    BY <1>5 DEF Required, Optional
  <2> QED
    BY <1>2, <1>3, <1>6, <2>1
<1>10. /\ "put" \in mix => total["put"] > 0
       /\ "transaction" \in mix => total["transaction.commit"] > 0
  <2>1. /\ "put" \in mix => "put" \in Required
        /\ "transaction" \in mix => "transaction.commit" \in Required
    BY Allowed
  <2> QED
    BY <2>1 DEF OperationRows
<1>11. total["durable"] > 0 <=> MayWrite
  BY <1>3, <1>4, <1>8, <1>9, <1>10 DEF MayWrite
<1>12. LatencyRows = OperationRows \union (IF MayWrite THEN {"durable"} ELSE {})
  BY <1>2, <1>11 DEF LatencyRows, OperationRows
<1>13. MayWrite => total["flush"] = 1
  <2>1. MayWrite => durabilityDrain > 0
    BY DEF CoreInv, PhaseInv, Over
  <2> QED
    BY <1>4, <2>1 DEF Flushed
<1>14. MayWrite => IF "put" \in mix THEN total["durable"] = total["put"] ELSE TransactionCounts
  <2>1. CASE "put" \in mix
    <3>1. MayWrite => total["durable"] = total["put"]
      BY <1>3, <1>4, <1>5, <1>9, <2>1
    <3> QED
      BY <2>1, <3>1
  <2>2. CASE "put" \notin mix
    <3>1. MayWrite => TransactionCounts
      BY <1>3, <1>4, <1>8, <2>2 DEF TransactionCounts
    <3> QED
      BY <2>2, <3>1
  <2> QED
    BY <2>1, <2>2
<1> QED
  BY <1>7, <1>12, <1>13, <1>14 DEF ValidApplicationRows

LEMMA SeriesValid ==
  ASSUME CoreInv, samplerState = "returned", rateWindows # <<>>
  PROVE  ValidSeries
<1>1. resources # <<>> /\ latencyWindows # <<>>
  BY DEF CoreInv, WindowsInv, SamplerInv
<1>2. ValidTimeline(rateWindows) /\ ValidTimeline(latencyWindows) /\ ValidTimeline(resources)
  BY <1>1 DEF CoreInv, WindowsInv, Timeline, ValidTimeline
<1>3. \A a \in LatencyRows : \E w \in Range(latencyWindows) : a \in w.sampled
  BY DEF CoreInv, WindowsInv, Sampled, LatencyRows, Range
<1> QED
  BY <1>2, <1>3 DEF ValidSeries

LEMMA ResultValid ==
  ASSUME CoreInv, samplerState = "returned", phase = "stopping", ~stepFailed,
         Required \subseteq OperationRows, rateWindows # <<>>
  PROVE  Valid
<1>1. ValidIntervals
  <2>1. /\ previousAt > 0 /\ clientMeasurement + durabilityDrain <= previousAt
        /\ durabilityDrain > 0 <=> MayWrite
    BY DEF CoreInv, SamplerInv, PhaseInv, Over
  <2>2. previousAt \in Nat /\ clientMeasurement \in Nat /\ durabilityDrain \in Nat
    BY ClockIs DEF CoreInv, Typed
  <2> QED
    BY <2>1, <2>2 DEF ValidIntervals
<1>2. ValidStoreRows
  BY DEF ValidStoreRows, ThroughputRows
<1> QED
  BY <1>1, <1>2, RowsValid, SeriesValid DEF Valid

LEMMA JudgesCore ==
  ASSUME CoreInv, NEW callsOk \in BOOLEAN, Judges(callsOk)
  PROVE  CoreInv'
<1>1. /\ phase = "stopping" /\ samplerState = "returned" /\ TaskOnly
      /\ phase' = IF stepFailed \/ ~callsOk \/ ~MixObserved THEN "failed"
                  ELSE IF Valid THEN "published" ELSE "rejected"
      /\ UNCHANGED <<current, stop, rateActive, stepFailed, since, clientMeasurement,
                     durabilityDrain>>
      /\ UNCHANGED <<now, mix, undurable, total, samplerState, drained, previousAt, sampleAt,
                     latencyWindows, rateWindows>>
  BY DEF Judges, TaskOnly, samplerVars, windowVars
<1>2. phase' \in Outcomes
  BY <1>1 DEF Outcomes
<1>3. Clocked /\ StateTyped /\ PhaseInv /\ SamplerInv
  BY DEF CoreInv, Typed
<1>4. MayWrite' = MayWrite /\ Over' /\ Over
  BY <1>1, <1>2 DEF MayWrite, Over
<1>5. BooksInv' /\ CallsTyped'
  <2>1. Flushed' = Flushed
    BY <1>1, <1>2 DEF Flushed, Outcomes
  <2>2. ~stepFailed /\ MayWrite => undurable = 0
    BY <1>4 DEF CoreInv, BooksInv
  <2> QED
    BY <1>1, <2>1, <2>2, SameCalls
<1>6. since' \in 0 .. now /\ clientMeasurement' \in 0 .. now /\ durabilityDrain' \in 0 .. now
  BY <1>1, <1>3 DEF Clocked
<1>7. PhaseInv'
  <2>1. phase' \notin {"baseline", "clients", "boundary", "flush", "covering"}
    BY <1>2 DEF Outcomes
  <2> QED
    BY <1>1, <1>3, <1>4, <2>1 DEF PhaseInv
<1>8. SamplerInv'
  BY <1>1, <1>3 DEF SamplerInv
<1>9. StateTyped'
  BY <1>1, <1>2, <1>3 DEF StateTyped, Phases
<1>10. SuccessIsPublishable'
  <2>1. UNCHANGED <<OperationRows, Required>>
    BY <1>1 DEF OperationRows, Required, MayWrite
  <2>2. phase' = "rejected" => ~Valid /\ ~stepFailed
    BY <1>1
  <2>3. phase' = "rejected" => rateWindows = <<>> \/ ~(Required \subseteq OperationRows)
    BY <1>1, <2>2, ResultValid
  <2> QED
    BY <1>1, <2>1, <2>3 DEF SuccessIsPublishable
<1> QED
  BY <1>1, <1>5, <1>6, <1>7, <1>8, <1>9, <1>10, TaskStep

-----------------------------------------------------------------------------
(* The specification *)

LEMMA CoreInit == Init => CoreInv
<1> SUFFICES ASSUME Init PROVE CoreInv
  OBVIOUS
<1>1. Typed
  <2>1. Clocked
    BY MeasurementAssumption DEF Init, Clocked
  <2>5. StateTyped
    BY DEF Init, StateTyped, SamplerStates, Phases
  <2>2. StoreTyped
    BY DEF Init, StoreTyped, Zero
  <2>3. CallsTyped
    BY DEF Init, CallsTyped, NoCalls
  <2>4. WindowsTyped
    BY DEF Init, WindowsTyped
  <2> QED
    BY <2>1, <2>2, <2>3, <2>4, <2>5 DEF Typed
<1>2. PhaseInv /\ SamplerInv /\ SuccessIsPublishable
  BY DEF Init, PhaseInv, SamplerInv, SuccessIsPublishable, Over, Outcomes, NoCalls
<1>3. BooksInv
  <2>1. \A a \in Apis : Calls(a) = 0
    BY DEF Init, Calls, NoCalls
  <2>2. /\ Calls("flush") = 0 /\ Calls("durable") = 0 /\ Calls("put") = 0
        /\ Calls("transaction.get") = 0 /\ Calls("transaction.put") = 0
        /\ Calls("transaction.commit") = 0 /\ Calls("transaction.conflict") = 0
    BY <2>1 DEF Apis
  <2>3. ~Flushed /\ undurable = 0
    BY DEF Init, Flushed
  <2> QED
    BY <2>1, <2>2, <2>3 DEF BooksInv
<1>4. WindowsInv
  <2>1. Timeline(<<>>, 0) /\ Reaches(<<>>, 0)
    BY DEF Timeline, Reaches
  <2>2. Sampled(latencyWindows, total)
    BY DEF Init, Sampled, NoCalls
  <2> QED
    BY <2>1, <2>2 DEF Init, WindowsInv
<1> QED
  BY <1>1, <1>2, <1>3, <1>4 DEF CoreInv

LEMMA CoreNext ==
  ASSUME CoreInv, HttpTyped, [Next]_vars
  PROVE  CoreInv'
<1>1. CASE UNCHANGED vars
  BY <1>1, CoreKept DEF vars
<1>2. CASE TimePasses
  BY <1>2, TimeCore
<1>3. CASE \E r \in Requests : Http(r)
  <2>1. UNCHANGED <<now, callVars, samplerVars, taskVars>>
    BY <1>3 DEF Http, Call, Frame, Responds, NoResponse, BodyFails, AttemptEnds, HttpOnly
  <2> QED
    BY <2>1, CoreKept
<1>4. CASE \E a \in Apis : Operation(a)
  BY <1>4, OperationCore
<1>5. CASE \E o \in {"transaction.commit", "transaction.conflict"} : Transaction(o)
  BY <1>5, TransactionCore
<1>6. CASE WriteDurable
  BY <1>6, DurableCore
<1>7. CASE Sampler
  BY <1>7, StartsCore, BeginsCore, EndsCore DEF Sampler
<1>8. CASE ClientsStart \/ Boundary
  BY <1>8, ClientsStartCore, BoundaryCore
<1>9. CASE \E ok \in BOOLEAN : ClientsEnd(ok) \/ FlushEnds(ok) \/ Covered(ok) \/ Judges(ok)
  BY <1>9, ClientsEndCore, FlushCore, CoveredCore, JudgesCore
<1>10. CASE Returned
  BY <1>10, CoreKept DEF Returned, vars
<1> QED
  BY <1>1, <1>2, <1>3, <1>4, <1>5, <1>6, <1>7, <1>8, <1>9, <1>10 DEF Next

LEMMA RequestsNext == RequestsInv /\ [Next]_vars => RequestsInv'
<1> SUFFICES ASSUME RequestsInv, [Next]_vars PROVE RequestsInv'
  OBVIOUS
<1>1. CASE \E r \in Requests : Http(r)
  BY <1>1, HttpRequests
<1>2. CASE ~\E r \in Requests : Http(r)
  <2>1. UNCHANGED httpVars
    BY <1>2 DEF Next, TimePasses, Operation, Transaction, WriteDurable, CallsOnly, Sampler,
                SamplerStarts, BaselineTaken, SampleBegins, SampleEnds, FinishBegins,
                FinishEnds, SamplerOnly, ClientsStart, Boundary, ClientsEnd, FlushEnds,
                Covered, Judges, TaskOnly, Returned, vars
  <2> QED
    BY <2>1, RequestsKept
<1> QED
  BY <1>1, <1>2

(* The inductive invariant of requests, calls, windows and phases. *)
LEMMA MeasurementInvariant == Spec => [](CoreInv /\ RequestsInv)
<1>1. Init => CoreInv /\ RequestsInv
  BY CoreInit, RequestsInit
<1>2. CoreInv /\ RequestsInv /\ [Next]_vars => (CoreInv /\ RequestsInv)'
  BY CoreNext, RequestsNext DEF RequestsInv
<1> QED
  BY <1>1, <1>2, PTL DEF Spec

(* TypeOK of a run: instants and intervals stay within the clock, counts are never *)
(* negative (src/workloads/mod.rs, src/system.rs).                                 *)
THEOREM MeasurementTypes == Spec => []TypeOK
<1>1. CoreInv /\ RequestsInv => TypeOK
  BY TypesAre DEF CoreInv, RequestsInv
<1> QED
  BY <1>1, MeasurementInvariant, PTL

(* SuccessIsPublishable: run_workload rejects the result of a run that succeeded only *)
(* for an operation never recorded or for a boundary before the first tick            *)
(* (runner.rs:465).                                                                   *)
THEOREM SuccessesArePublishable == Spec => []SuccessIsPublishable
<1>1. CoreInv /\ RequestsInv => SuccessIsPublishable
  BY DEF CoreInv
<1> QED
  BY <1>1, MeasurementInvariant, PTL

(* AttemptsAccounted: no attempt is classified twice or adds two transport errors, *)
(* whatever polls follow an error (instrumented_http.rs:379).                      *)
THEOREM AttemptsAreAccounted == Spec => []AttemptsAccounted
<1>1. CoreInv /\ RequestsInv => AttemptsAccounted
  <2> SUFFICES ASSUME RequestsInv, NEW m \in Methods
               PROVE  /\ Responses(m) <= counters[m].requests
                      /\ counters[m].transport_errors <= counters[m].requests
                      /\ counters[m].client_errors + counters[m].server_errors
                           + counters[m].transport_errors <= counters[m].request_errors
    BY DEF AttemptsAccounted
  <2>1. HttpTyped /\ HttpInv
    BY DEF RequestsInv
  <2>2. Cardinality(Sending(m)) \in Nat /\ Cardinality(Sound(m)) \in Nat
    BY <2>1, HttpIs, FS_CardinalityType
  <2>3. Accounts(m, Cardinality(Sending(m)), Cardinality(Sound(m)))
    BY <2>1, HttpIs
  <2>4. /\ Responses(m) \in Nat /\ counters[m].requests \in Nat
        /\ counters[m].transport_errors \in Nat
    BY <2>1 DEF HttpTyped, Counters, Responses
  <2> QED
    BY <2>2, <2>3, <2>4 DEF Accounts
<1> QED
  BY <1>1, MeasurementInvariant, PTL
=============================================================================
