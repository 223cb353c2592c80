---------------------------- MODULE Measurement ----------------------------
(***************************************************************************)
(* From activity to a published result: the requests of the object store's *)
(* HTTP client and their counters (src/instrumented_http.rs,               *)
(* src/instrumented_store.rs), the windows and totals the sampler collects *)
(* (src/system.rs) while `execute` (src/workloads/mod.rs) runs clients,    *)
(* flush and drain, the rows made of them, and the judgement of            *)
(* src/validation.rs, which `run_workload` passes on its own result before *)
(* it writes anything.                                                     *)
(*                                                                         *)
(* Abstractions.  The clock counts from the sampler's start.  All clients  *)
(* are one actor, and a call is the moment it is recorded; Sampler has the *)
(* recorders' locks.  A latency histogram is its number of samples; a list *)
(* of rates is its timeline, since the rates of a row and of its series    *)
(* are computed from the same windows by the same formula; so the counters *)
(* are read for the totals only, at the baseline and at the end.           *)
(***************************************************************************)
EXTENDS Naturals, Sequences, FiniteSets, Functions

CONSTANTS Methods,   \* HttpMethod
          Requests,  \* bound: the request attempts
          Statuses,  \* the classes of a response's status, of those StatusCounters names
          MaxFrames, \* bound: the body frames of a method
          Mixes,     \* the operation mixes of the task catalog: no task both puts and
                     \* runs transactions
          MaxTime,   \* bound: the clock
          MaxCalls   \* bound: the clients' calls

Apis == {"get", "put", "scan", "transaction.get", "transaction.put", "transaction.commit",
         "transaction.conflict", "flush", "durable"}
Counters == {"requests", "successful_requests", "not_found_responses", "request_errors",
             "client_errors", "server_errors", "transport_errors", "bytes"}
Published == {"requests", "bytes"}  \* those of the counters that decide whether a row exists
NoCalls == [a \in Apis |-> 0]

ASSUME MeasurementAssumption ==
  /\ MaxTime \in Nat \ {0, 1} /\ MaxCalls \in Nat /\ Methods # {}
  /\ Mixes \subseteq SUBSET {"get", "put", "scan", "transaction"}
  /\ \A operations \in Mixes : ~({"put", "transaction"} \subseteq operations)

VARIABLES
  now,           \* time since the sampler started
  attempts,      \* per request attempt: its method and state
  counters,      \* StoreMetrics, per method
  mix,           \* the task's operation mix
  current,       \* calls recorded since the last drain of the registry
  undurable,     \* accepted writes whose durable latency is still to come
  samplerState,  \* start, baseline, wait, sample, finish, final, returned
  stop,          \* the stop channel's value
  rateActive,    \* RateWindowControl.active
  sampleAt,      \* now of the sample in progress
  drained,       \* what that sample drained from the registry
  partial,       \* what the baseline's or the final snapshot has read so far
  previousAt,    \* the time of the last sample
  total,         \* application_total
  rateWindows, latencyWindows, resources,
  storeStart, storeEnd,
  phase,         \* of execute and run_workload
  stepFailed,    \* the clients, the flush or the tracker returned an error
  since,         \* start of the interval that execute is timing
  clientMeasurement, durabilityDrain

httpVars == <<attempts, counters>>
callVars == <<mix, current, undurable>>
windowVars == <<total, rateWindows, latencyWindows, resources, storeStart, storeEnd>>
samplerVars == <<samplerState, sampleAt, drained, partial, previousAt, windowVars>>
taskVars == <<stop, rateActive, phase, stepFailed, since, clientMeasurement,
              durabilityDrain>>
vars == <<now, httpVars, callVars, samplerVars, taskVars>>

Zero(ks) == [m \in Methods |-> [k \in ks |-> 0]]

Init ==
  /\ now = 0
  /\ attempts = [r \in Requests |-> [method |-> CHOOSE m \in Methods : TRUE, state |-> "new"]]
  /\ counters = Zero(Counters)
  /\ mix \in Mixes
  /\ current = NoCalls /\ undurable = 0
  /\ samplerState = "start" /\ stop = FALSE /\ rateActive = TRUE
  /\ sampleAt = 0 /\ drained = NoCalls /\ partial = Zero(Published) /\ previousAt = 0
  /\ total = NoCalls
  /\ rateWindows = <<>> /\ latencyWindows = <<>> /\ resources = <<>>
  /\ storeStart = Zero(Published) /\ storeEnd = Zero(Published)
  /\ phase = "baseline" /\ stepFailed = FALSE
  /\ since = 0 /\ clientMeasurement = 0 /\ durabilityDrain = 0

Outcomes == {"published", "rejected", "failed"}
MayWrite == "put" \in mix \/ "transaction" \in mix

(* The clock's bound leaves room for what is measured after each phase. *)
Latest ==
  CASE phase \in {"baseline", "clients", "boundary"} -> MaxTime - 2
    [] phase \in {"flush", "covering"} -> MaxTime - 1
    [] OTHER -> MaxTime

TimePasses ==
  /\ now < Latest /\ samplerState # "start" /\ phase \notin Outcomes
  /\ now' = now + 1
  /\ UNCHANGED <<httpVars, callVars, samplerVars, taskVars>>

-----------------------------------------------------------------------------
(* InstrumentedReqwestService::call and the bodies it wraps *)

Counted(m, ks) == [counters EXCEPT ![m] = [k \in Counters |-> @[k] + IF k \in ks THEN 1 ELSE 0]]

AttemptStep(r, state) == attempts' = [attempts EXCEPT ![r].state = state]
HttpOnly == UNCHANGED <<now, callVars, samplerVars, taskVars>>

(* A request to the object store, not to another host, is counted as it starts. *)
Call(r, m) ==
  /\ attempts[r].state = "new"
  /\ attempts' = [attempts EXCEPT ![r] = [method |-> m, state |-> "sending"]]
  /\ counters' = Counted(m, {"requests"})
  /\ HttpOnly

(* A data frame of the request's or of the response's body. *)
Frame(r) ==
  /\ attempts[r].state \in {"sending", "receiving"}
  /\ counters[attempts[r].method].bytes < MaxFrames
  /\ counters' = Counted(attempts[r].method, {"bytes"})
  /\ UNCHANGED attempts
  /\ HttpOnly

(* What record_status counts for a response. *)
StatusCounters(status) ==
  CASE status = "success" -> {"successful_requests"}
    [] status = "not found" -> {"not_found_responses"}
    [] status = "client error" -> {"request_errors", "client_errors"}
    [] status = "server error" -> {"request_errors", "server_errors"}
    [] OTHER -> {"request_errors"}

Responds(r, status) ==
  /\ attempts[r].state = "sending" /\ AttemptStep(r, "receiving")
  /\ counters' = Counted(attempts[r].method, StatusCounters(status))
  /\ HttpOnly

NoResponse(r) ==
  /\ attempts[r].state = "sending" /\ AttemptStep(r, "ended")
  /\ counters' = Counted(attempts[r].method, {"request_errors", "transport_errors"})
  /\ HttpOnly

(* Mutant: body_error_recorded is not kept. *)
BodyFailsAgain(r) ==
  /\ attempts[r].state \in {"receiving", "broken"}
  /\ counters[attempts[r].method].transport_errors < 3
  /\ AttemptStep(r, "broken")
  /\ counters' = Counted(attempts[r].method, {"request_errors", "transport_errors"})
  /\ HttpOnly

(* An error is counted at the first poll that returns one; later polls may follow. *)
BodyFails(r) ==
  /\ attempts[r].state \in {"receiving", "broken"}
  /\ AttemptStep(r, "broken")
  /\ counters' = IF attempts[r].state = "broken" THEN counters
                 ELSE Counted(attempts[r].method, {"request_errors", "transport_errors"})
  /\ HttpOnly

(* The body ends, or the caller drops the request or its response. *)
AttemptEnds(r) ==
  /\ attempts[r].state \notin {"new", "ended"} /\ AttemptStep(r, "ended")
  /\ UNCHANGED counters
  /\ HttpOnly

(* Bound: nothing reads the counters after the final snapshot, so requests end there. *)
Http(r) ==
  /\ samplerState # "returned"
  /\ \/ \E m \in Methods : Call(r, m)
     \/ Frame(r)
     \/ \E s \in Statuses : Responds(r, s)
     \/ NoResponse(r)
     \/ BodyFails(r)
     \/ AttemptEnds(r)

-----------------------------------------------------------------------------
(* The clients and the durability shards *)

SumOf(f) == FoldFunctionOnSet(LAMBDA x, y : x + y, 0, f, Apis)
Recorded(as) == [a \in Apis |-> current[a] + IF a \in as THEN 1 ELSE 0]
CallsOnly == UNCHANGED <<now, httpVars, mix, samplerVars, taskVars>>
MayCall == phase = "clients" /\ SumOf(current) + SumOf(drained) + SumOf(total) < MaxCalls

Operation(a) ==
  /\ MayCall /\ a \in mix \ {"transaction"}
  /\ current' = Recorded({a})
  /\ undurable' = undurable + IF a = "put" THEN 1 ELSE 0
  /\ CallsOnly

(* One transaction of one read and one update. *)
Transaction(outcome) ==
  /\ MayCall /\ "transaction" \in mix
  /\ current' = Recorded({"transaction.get", "transaction.put", outcome})
  /\ undurable' = undurable + IF outcome = "transaction.commit" THEN 1 ELSE 0
  /\ CallsOnly

(* A shard records the latency of a write that has become durable. *)
WriteDurable ==
  /\ undurable > 0 /\ phase \in {"clients", "boundary", "flush", "covering"}
  /\ current' = Recorded({"durable"}) /\ undurable' = undurable - 1
  /\ CallsOnly

-----------------------------------------------------------------------------
(* sample_until_stopped_with_rate_control *)

SamplerOnly == UNCHANGED <<now, httpVars, mix, undurable, taskVars>>

(* StoreMetrics::snapshot loads the counters one by one, attempts before bytes. *)
LoadAttempts == partial' = [m \in Methods |-> [k \in Published |-> counters[m][k]]]
Loaded == [m \in Methods |-> [partial[m] EXCEPT !.bytes = counters[m].bytes]]

SamplerStarts ==
  /\ samplerState = "start" /\ samplerState' = "baseline"
  /\ LoadAttempts
  /\ UNCHANGED <<current, sampleAt, drained, previousAt, windowVars>>
  /\ SamplerOnly

BaselineTaken ==
  /\ samplerState = "baseline" /\ samplerState' = "wait"
  /\ storeStart' = Loaded /\ partial' = Zero(Published)
  /\ UNCHANGED <<current, sampleAt, drained, previousAt, total, rateWindows,
                 latencyWindows, resources, storeEnd>>
  /\ SamplerOnly

DrainRegistry == drained' = current /\ current' = NoCalls

(* A tick, which the clock's bound leaves time for the final sample.  Two samples *)
(* of the clock with a sample of the host between them differ.                    *)
SampleBegins ==
  /\ samplerState = "wait" /\ now > previousAt /\ now < MaxTime
  /\ samplerState' = "sample"
  /\ sampleAt' = now
  /\ DrainRegistry
  /\ UNCHANGED <<partial, previousAt, windowVars>>
  /\ SamplerOnly

Merged == [a \in Apis |-> total[a] + drained[a]]
Window(at) == [elapsed |-> at, duration |-> at - previousAt]
LatencyWindow(at) ==
  [elapsed |-> at, duration |-> at - previousAt, sampled |-> {a \in Apis : drained[a] > 0}]

SampleEnds ==
  /\ samplerState = "sample"
  /\ samplerState' = IF stop THEN "finish" ELSE "wait"
  /\ total' = Merged
  /\ latencyWindows' = Append(latencyWindows, LatencyWindow(sampleAt))
  /\ rateWindows' = IF rateActive THEN Append(rateWindows, Window(sampleAt)) ELSE rateWindows
  /\ resources' = Append(resources, Window(sampleAt))
  /\ previousAt' = sampleAt
  /\ drained' = NoCalls /\ sampleAt' = 0
  /\ UNCHANGED <<current, partial, storeStart, storeEnd>>
  /\ SamplerOnly

(* The loop ends: the registry is drained once more and the counters are read. *)
FinishBegins ==
  /\ \/ samplerState = "finish"
     \/ samplerState = "wait" /\ stop
  /\ samplerState' = "final"
  /\ DrainRegistry /\ LoadAttempts
  /\ UNCHANGED <<sampleAt, previousAt, windowVars>>
  /\ SamplerOnly

FinishEnds ==
  /\ samplerState = "final" /\ samplerState' = "returned"
  /\ now > previousAt
  /\ total' = Merged /\ storeEnd' = Loaded
  /\ latencyWindows' = Append(latencyWindows, LatencyWindow(now))
  /\ rateWindows' = IF rateActive THEN Append(rateWindows, Window(now)) ELSE rateWindows
  /\ previousAt' = now
  /\ drained' = NoCalls /\ partial' = Zero(Published)
  /\ UNCHANGED <<current, sampleAt, resources, storeStart>>
  /\ SamplerOnly

Sampler == SamplerStarts \/ BaselineTaken \/ SampleBegins \/ SampleEnds \/ FinishBegins \/ FinishEnds

-----------------------------------------------------------------------------
(* The rows of the result and of its series *)

OperationRows == {a \in Apis \ {"durable"} : total[a] > 0}
LatencyRows == {a \in Apis : total[a] > 0}

(* StoreSnapshot::difference, which saturates. *)
Difference(m, k) ==
  IF storeEnd[m][k] >= storeStart[m][k] THEN storeEnd[m][k] - storeStart[m][k] ELSE 0

RequestRows == {m \in Methods : Difference(m, "requests") > 0}

(* Bytes of a method that started no request in the interval have no row. *)
ThroughputRows == {m \in RequestRows : Difference(m, "bytes") > 0}

-----------------------------------------------------------------------------
(* Validation *)

(* validate_timeline, and that the timeline stays within the recorded interval. *)
ValidTimeline(ws) ==
  /\ ws # <<>>
  /\ \A i \in DOMAIN ws :
       /\ ws[i].duration > 0
       /\ ws[i].elapsed = ws[i].duration + IF i = 1 THEN 0 ELSE ws[i - 1].elapsed
       /\ ws[i].elapsed <= previousAt

ValidIntervals ==
  /\ previousAt > 0 /\ previousAt >= clientMeasurement + durabilityDrain
  /\ MayWrite <=> durabilityDrain > 0

ValidStoreRows == ThroughputRows \subseteq RequestRows

Required ==
  (mix \ {"transaction"}) \union (IF MayWrite THEN {"flush"} ELSE {})
    \union (IF "transaction" \in mix
             THEN {"transaction.get", "transaction.put", "transaction.commit"} ELSE {})
Optional == IF "transaction" \in mix THEN {"transaction.conflict"} ELSE {}

TransactionCounts ==
  LET tried == total["transaction.commit"] + total["transaction.conflict"]
  IN  /\ total["transaction.get"] = tried /\ total["transaction.put"] = tried
      /\ total["durable"] = total["transaction.commit"]

ValidApplicationRows ==
  /\ Required \subseteq OperationRows /\ OperationRows \subseteq Required \union Optional
  /\ LatencyRows = OperationRows \union (IF MayWrite THEN {"durable"} ELSE {})
  /\ MayWrite => /\ total["flush"] = 1
                 /\ IF "put" \in mix THEN total["durable"] = total["put"] ELSE TransactionCounts

ValidSeries ==
  /\ ValidTimeline(rateWindows) /\ ValidTimeline(latencyWindows) /\ ValidTimeline(resources)
  /\ \A a \in LatencyRows : \E w \in Range(latencyWindows) : a \in w.sampled

Valid == ValidIntervals /\ ValidStoreRows /\ ValidApplicationRows /\ ValidSeries

-----------------------------------------------------------------------------
(* execute, and what run_workload does with its result *)

TaskOnly == UNCHANGED <<now, httpVars, mix, undurable, samplerVars>>

ClientsStart ==
  /\ phase = "baseline" /\ samplerState \notin {"start", "baseline"}
  /\ phase' = "clients" /\ since' = now
  /\ UNCHANGED <<current, stop, rateActive, stepFailed, clientMeasurement, durabilityDrain>>
  /\ TaskOnly

ClientsEnd(ok) ==
  /\ phase = "clients" /\ stepFailed' = ~ok
  /\ phase' = "boundary" /\ clientMeasurement' = now - since
  /\ UNCHANGED <<current, stop, rateActive, since, durabilityDrain>>
  /\ TaskOnly

(* RateWindowControl::finish waits for the sample in progress.  There is a drain *)
(* after clients that may write and that did not fail.                           *)
Boundary ==
  /\ phase = "boundary" /\ samplerState # "sample"
  /\ rateActive' = FALSE
  /\ phase' = IF MayWrite /\ ~stepFailed THEN "flush" ELSE "stopping"
  /\ stop' = ~(MayWrite /\ ~stepFailed)
  /\ since' = now
  /\ UNCHANGED <<current, stepFailed, clientMeasurement, durabilityDrain>>
  /\ TaskOnly

(* Mutant: the drain's end is added to its start. *)
DrainAdded ==
  /\ phase' = "stopping" /\ stop' = TRUE
  /\ durabilityDrain' = now + since

StopsSampler ==
  /\ phase' = "stopping" /\ stop' = TRUE
  /\ durabilityDrain' = now - since

(* The flush takes time, whether it succeeds or not. *)
FlushEnds(ok) ==
  /\ phase = "flush" /\ now > since
  /\ current' = Recorded({"flush"})
  /\ stepFailed' = ~ok
  /\ IF ok THEN phase' = "covering" /\ UNCHANGED <<stop, durabilityDrain>> ELSE StopsSampler
  /\ UNCHANGED <<rateActive, since, clientMeasurement>>
  /\ TaskOnly

(* Mutant: the tracker is not waited for. *)
CoveredUnawaited(ok) ==
  /\ phase = "covering"
  /\ stepFailed' = ~ok
  /\ StopsSampler
  /\ UNCHANGED <<current, rateActive, since, clientMeasurement>>
  /\ TaskOnly

(* DurabilityTracker::finish returns: all writes have their latency, or an error. *)
Covered(ok) ==
  /\ phase = "covering"
  /\ ok => undurable = 0
  /\ stepFailed' = ~ok
  /\ StopsSampler
  /\ UNCHANGED <<current, rateActive, since, clientMeasurement>>
  /\ TaskOnly

(* validate_mix for BALANCED: of a few calls, only halves are within a hundredth of it. *)
MixObserved ==
  {"get", "put"} \subseteq mix => total["get"] = total["put"] /\ total["get"] > 0

(* A failed call is recorded like any other and changes nothing before its error is *)
(* counted here: callsOk is whether there was none.                                 *)
Judges(callsOk) ==
  /\ phase = "stopping" /\ samplerState = "returned"
  /\ phase' = IF stepFailed \/ ~callsOk \/ ~MixObserved THEN "failed"
              ELSE IF Valid THEN "published" ELSE "rejected"
  /\ UNCHANGED <<current, stop, rateActive, stepFailed, since, clientMeasurement, durabilityDrain>>
  /\ TaskOnly

Returned == phase \in Outcomes /\ UNCHANGED vars

Next ==
  \/ TimePasses
  \/ \E r \in Requests : Http(r)
  \/ \E a \in Apis : Operation(a)
  \/ \E o \in {"transaction.commit", "transaction.conflict"} : Transaction(o)
  \/ WriteDurable
  \/ Sampler
  \/ ClientsStart \/ Boundary
  \/ \E ok \in BOOLEAN : ClientsEnd(ok) \/ FlushEnds(ok) \/ Covered(ok) \/ Judges(ok)
  \/ Returned

Spec == Init /\ [][Next]_vars

-----------------------------------------------------------------------------
(* Every variable keeps its type; instants and intervals lie within the run's clock. *)
TypeOK ==
  /\ now \in 0 .. MaxTime /\ previousAt \in 0 .. now /\ sampleAt \in 0 .. now
  /\ attempts \in [Requests -> [method : Methods,
         state : {"new", "sending", "receiving", "broken", "ended"}]]
  /\ counters \in [Methods -> [Counters -> Nat]]
  /\ {partial, storeStart, storeEnd} \subseteq [Methods -> [Published -> Nat]]
  /\ mix \in Mixes /\ undurable \in Nat
  /\ {current, drained, total} \subseteq [Apis -> Nat]
  /\ {stop, rateActive, stepFailed} \subseteq BOOLEAN
  /\ samplerState \in {"start", "baseline", "wait", "sample", "finish", "final", "returned"}
  /\ phase \in {"baseline", "clients", "boundary", "flush", "covering", "stopping"}
              \union Outcomes
  /\ {since, clientMeasurement, durabilityDrain} \subseteq 0 .. now

(* run_workload throws a successful run away only if an operation of the mix *)
(* was never recorded or no tick fell between the baseline and the boundary: *)
(* neither the drain's durable latencies and flush, nor where the intervals  *)
(* are taken, nor requests that straddle the interval can make validation    *)
(* refuse what execute has measured (runner.rs:465).                         *)
SuccessIsPublishable ==
  phase = "rejected" => rateWindows = <<>> \/ ~(Required \subseteq OperationRows)

Responses(m) ==
  counters[m].successful_requests + counters[m].not_found_responses + counters[m].client_errors
    + counters[m].server_errors

(* No method has more responses classified, or more transport errors, than     *)
(* requests, also when a broken body is polled again; and every client, server *)
(* and transport error is counted in request_errors too. One attempt can add   *)
(* two to request_errors: one for its status, one for its body                 *)
(* (instrumented_http.rs:379).                                                 *)
AttemptsAccounted ==
  \A m \in Methods :
    /\ Responses(m) <= counters[m].requests
    /\ counters[m].transport_errors <= counters[m].requests
    /\ counters[m].client_errors + counters[m].server_errors + counters[m].transport_errors
         <= counters[m].request_errors
=============================================================================
