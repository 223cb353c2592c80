------------------------------ MODULE Sampler ------------------------------
(***************************************************************************)
(* How the activity of one measured interval is collected: the registry of *)
(* recorder shards, the sampling loop and the boundary at which rates stop *)
(* (src/system.rs), driven by `execute` (workloads/mod.rs) for a workload, *)
(* or by `measure_until_complete` (system.rs) for a preparation task.      *)
(*                                                                         *)
(* A recorder has a shard of its own, a lock around an active buffer and a *)
(* spare one.  A sample swaps the buffers of every registered shard, one   *)
(* after the other, while the recorders go on.  The rate control is a lock *)
(* held for the length of a sample, so that a workload's rates stop with   *)
(* its clients although sampling continues through the drain.              *)
(*                                                                         *)
(* Abstractions.  A recorder records calls of its own kind only, so the    *)
(* content of a buffer is a count of calls per recorder: clients record    *)
(* operations, the tracker records durable latencies, which are not        *)
(* operations, and `execute` records the final flush.  All durability      *)
(* shards are one recorder.  A list of windows is the sum of its windows.  *)
(* The object store's counters are one request counter.                    *)
(***************************************************************************)
EXTENDS Naturals

CONSTANTS Clients,     \* the recorders of the measured clients
          Tracker,     \* the durability shards' recorder
          Flusher,     \* the recorder of execute's final flush
          MaxCalls,    \* bound: calls of one client
          MaxRequests  \* bound: object-store requests

ASSUME SamplerAssumption ==
  /\ Tracker \notin Clients /\ Flusher \notin Clients /\ Tracker # Flusher
  /\ MaxCalls \in Nat /\ MaxRequests \in Nat

Recorders == Clients \union {Tracker, Flusher}
Nothing == [r \in Recorders |-> 0]

VARIABLES
  registered,    \* ApplicationRegistry.shards
  active,        \* per recorder: the content of its active buffer
  spare,         \* per recorder: the content of its spare buffer
  recorded,      \* per recorder: calls recorded so far
  requests,      \* StoreMetrics: requests counted so far
  rateActive,    \* RateWindowControl.active
  rateHeld,      \* the sampler holds that lock
  samplerState,  \* start, ready, loop, wait, drain, merge, returned
  final,         \* the sampler is past its loop
  ready,         \* the ready channel has been signalled
  toDrain,       \* shards of the drain's list not yet swapped
  holding,       \* the shard whose swapped buffer the drain holds
  held,          \* the content of that buffer
  merged,        \* what the drain has merged so far
  total,         \* application_total
  rated,         \* what the application windows hold together
  storeStart,    \* store_start
  previousStore, \* previous_store; store_end once the sampler has returned
  storeRated,    \* what the store windows hold together
  preparation,   \* the task runs in measure_until_complete, not in execute
  clientState,   \* per client: new, running, stopped
  undurable,     \* accepted writes whose durable latency is still to come
  phase,         \* of the measured task: baseline, clients, boundary, ...
  failed,        \* the task has failed
  stop,          \* the stop channel's value
  requestsBefore, requestsAfter \* requests as the clients start, and stop

recorderVars == <<registered, active, spare, recorded>>
controlVars == <<rateActive, rateHeld>>
sampleVars == <<toDrain, holding, held, merged>>
sumVars == <<total, rated, storeStart, previousStore, storeRated>>
samplerVars == <<samplerState, final, ready, sampleVars, sumVars>>
taskVars == <<preparation, clientState, undurable, phase, failed, stop, requestsBefore, requestsAfter>>
vars == <<recorderVars, requests, controlVars, samplerVars, taskVars>>

Outcomes == {"done", "failed"}

Init ==
  /\ registered = {}
  /\ active = Nothing /\ spare = Nothing /\ recorded = Nothing
  /\ requests \in 0 .. MaxRequests
  /\ rateActive = TRUE /\ rateHeld = FALSE
  /\ samplerState = "start" /\ final = FALSE /\ ready = FALSE
  /\ toDrain = {} /\ holding = {} /\ held = 0 /\ merged = Nothing
  /\ total = Nothing /\ rated = Nothing
  /\ storeStart = 0 /\ previousStore = 0 /\ storeRated = 0
  /\ preparation \in BOOLEAN
  /\ clientState = [c \in Clients |-> "new"]
  /\ undurable = 0
  /\ phase = "baseline" /\ failed = FALSE /\ stop = FALSE
  /\ requestsBefore = 0 /\ requestsAfter = 0

-----------------------------------------------------------------------------
(* The recorders *)

(* One call recorded under the shard's lock. *)
Record(r) ==
  /\ active' = [active EXCEPT ![r] = @ + 1]
  /\ recorded' = [recorded EXCEPT ![r] = @ + 1]
  /\ UNCHANGED <<registered, spare>>

(* ApplicationRegistry::recorder *)
Register(new) ==
  /\ registered' = registered \union new
  /\ UNCHANGED <<active, spare, recorded>>

(* The object store's clients, of the workload and in the background. *)
StoreRequest ==
  /\ requests < MaxRequests
  /\ requests' = requests + 1
  /\ UNCHANGED <<recorderVars, controlVars, samplerVars, taskVars>>

-----------------------------------------------------------------------------
(* sample_until_stopped_with_rate_control *)

(* Mutant: ready is signalled before the counters' baseline is read. *)
SamplerStartsReady ==
  /\ samplerState = "start"
  /\ ready' = TRUE
  /\ IF ready
     THEN /\ storeStart' = requests /\ previousStore' = requests
          /\ samplerState' = "ready"
     ELSE UNCHANGED <<storeStart, previousStore, samplerState>>
  /\ UNCHANGED <<recorderVars, requests, controlVars, final, sampleVars,
                 total, rated, storeRated, taskVars>>

SamplerStarts ==
  /\ samplerState = "start"
  /\ storeStart' = requests /\ previousStore' = requests
  /\ samplerState' = "ready"
  /\ UNCHANGED <<recorderVars, requests, controlVars, final, ready,
                 sampleVars, total, rated, storeRated, taskVars>>

SamplerReady ==
  /\ samplerState = "ready"
  /\ ready' = TRUE
  /\ samplerState' = "loop"
  /\ UNCHANGED <<recorderVars, requests, controlVars, final, sampleVars,
                 sumVars, taskVars>>

(* registry.drain() clones the list of shards. *)
DrainStarts ==
  /\ toDrain' = registered
  /\ merged' = Nothing
  /\ samplerState' = "drain"
  /\ UNCHANGED <<holding, held>>

LoopContinues ==
  /\ samplerState = "loop" /\ ~stop
  /\ samplerState' = "wait"
  /\ UNCHANGED <<recorderVars, requests, controlVars, final, ready,
                 sampleVars, sumVars, taskVars>>

(* The loop is left at its condition, or by the stop branch of its select. *)
LoopEnds ==
  /\ samplerState \in {"loop", "wait"} /\ stop
  /\ final' = TRUE
  /\ DrainStarts
  /\ UNCHANGED <<recorderVars, requests, controlVars, ready, sumVars, taskVars>>

(* The select takes the tick even when stop has been sent meanwhile. *)
TickBegins ==
  /\ samplerState = "wait"
  /\ rateHeld' = TRUE
  /\ DrainStarts
  /\ UNCHANGED <<recorderVars, requests, rateActive, final, ready, sumVars, taskVars>>

(* Swap one shard's buffers, under its lock. *)
DrainSwaps(r) ==
  /\ samplerState = "drain" /\ r \in toDrain
  /\ held' = active[r]
  /\ active' = [active EXCEPT ![r] = spare[r]]
  /\ spare' = [spare EXCEPT ![r] = 0]
  /\ toDrain' = toDrain \ {r}
  /\ holding' = {r}
  /\ samplerState' = "merge"
  /\ UNCHANGED <<registered, recorded, requests, controlVars, final, ready,
                 merged, sumVars, taskVars>>

(* Mutant: the swapped buffer is put back as it is. *)
DrainMergesUnreset ==
  /\ samplerState = "merge"
  /\ merged' = [r \in Recorders |-> merged[r] + (IF r \in holding THEN held ELSE 0)]
  /\ spare' = [r \in Recorders |-> IF r \in holding THEN held ELSE spare[r]]
  /\ holding' = {} /\ held' = 0
  /\ samplerState' = "drain"
  /\ UNCHANGED <<registered, active, recorded, requests, controlVars, final, ready,
                 toDrain, sumVars, taskVars>>

(* Merge the swapped buffer, reset it and put it back as the spare one. *)
DrainMerges ==
  /\ samplerState = "merge"
  /\ merged' = [r \in Recorders |-> merged[r] + (IF r \in holding THEN held ELSE 0)]
  /\ spare' = [r \in Recorders |-> IF r \in holding THEN 0 ELSE spare[r]]
  /\ holding' = {} /\ held' = 0
  /\ samplerState' = "drain"
  /\ UNCHANGED <<registered, active, recorded, requests, controlVars, final, ready,
                 toDrain, sumVars, taskVars>>

(* The operations of a window: durable latencies are not operations. *)
Operations(window) == [window EXCEPT ![Tracker] = 0]

(* StoreSnapshot::difference *)
Difference(end, start) == IF end > start THEN end - start ELSE 0

(* Mutant: a store window since the baseline, not since the last window. *)
PushSinceBaseline ==
  /\ rated' = [r \in Recorders |-> rated[r] + Operations(merged)[r]]
  /\ storeRated' = storeRated + Difference(requests, storeStart)

PushRateWindow ==
  /\ rated' = [r \in Recorders |-> rated[r] + Operations(merged)[r]]
  /\ storeRated' = storeRated + Difference(requests, previousStore)

(* Mutant: the last, partial window is no rate window. *)
SampleEndsWithoutPartial ==
  /\ samplerState = "drain" /\ toDrain = {}
  /\ total' = [r \in Recorders |-> total[r] + merged[r]]
  /\ merged' = Nothing
  /\ previousStore' = requests
  /\ IF rateActive /\ ~final THEN PushRateWindow ELSE UNCHANGED <<rated, storeRated>>
  /\ rateHeld' = FALSE
  /\ samplerState' = IF final THEN "returned" ELSE "loop"
  /\ UNCHANGED <<recorderVars, requests, rateActive, final, ready, toDrain,
                 holding, held, storeStart, taskVars>>

(* The tail of a sample, after its drain: take the store snapshot, add to   *)
(* the total, and push the rate windows while they are active.  In the loop *)
(* the control's lock is held since the tick and released here; after it    *)
(* the lock is only taken to read the flag, which no one changes any more.  *)
SampleEnds ==
  /\ samplerState = "drain" /\ toDrain = {}
  /\ total' = [r \in Recorders |-> total[r] + merged[r]]
  /\ merged' = Nothing
  /\ previousStore' = requests
  /\ IF rateActive THEN PushRateWindow ELSE UNCHANGED <<rated, storeRated>>
  /\ rateHeld' = FALSE
  /\ samplerState' = IF final THEN "returned" ELSE "loop"
  /\ UNCHANGED <<recorderVars, requests, rateActive, final, ready, toDrain,
                 holding, held, storeStart, taskVars>>

-----------------------------------------------------------------------------
(* The measured task: execute, or measure_until_complete *)

TaskStarts ==
  /\ phase = "baseline" /\ ready
  /\ phase' = "clients"
  /\ requestsBefore' = requests
  /\ UNCHANGED <<recorderVars, requests, controlVars, samplerVars, preparation, clientState,
                 undurable, failed, stop, requestsAfter>>

(* run_phase gives a client its recorder and the recorder of its durability *)
(* shard, and spawns it.                                                    *)
ClientSpawned(c) ==
  /\ phase = "clients" /\ clientState[c] = "new"
  /\ Register(IF preparation THEN {c} ELSE {c, Tracker})
  /\ clientState' = [clientState EXCEPT ![c] = "running"]
  /\ UNCHANGED <<requests, controlVars, samplerVars, preparation, undurable, phase, failed, stop,
                 requestsBefore, requestsAfter>>

(* In a workload the call is an accepted write, tracked to its durability. *)
ClientCalls(c) ==
  /\ clientState[c] = "running" /\ recorded[c] < MaxCalls
  /\ Record(c)
  /\ undurable' = IF preparation THEN undurable ELSE undurable + 1
  /\ UNCHANGED <<requests, controlVars, samplerVars, preparation, clientState, phase, failed,
                 stop, requestsBefore, requestsAfter>>

(* DurabilityTracker's shards: record_latency. *)
DurableRecorded ==
  /\ undurable > 0
  /\ undurable' = undurable - 1
  /\ Record(Tracker)
  /\ UNCHANGED <<requests, controlVars, samplerVars, preparation, clientState, phase, failed,
                 stop, requestsBefore, requestsAfter>>

ClientStops(c) ==
  /\ phase = "clients" /\ clientState[c] = "running"
  /\ clientState' = [clientState EXCEPT ![c] = "stopped"]
  /\ UNCHANGED <<recorderVars, requests, controlVars, samplerVars, preparation, undurable, phase,
                 failed, stop, requestsBefore, requestsAfter>>

(* All clients joined, or one of them failed: the others are aborted, which *)
(* they notice at their next await.                                         *)
ClientsEnd ==
  /\ phase = "clients"
  /\ \A c \in Clients : clientState[c] # "new"
  /\ \/ (\A c \in Clients : clientState[c] = "stopped") /\ UNCHANGED failed
     \/ failed' = TRUE
  /\ phase' = IF preparation THEN "stop" ELSE "boundary"
  /\ requestsAfter' = requests
  /\ UNCHANGED <<recorderVars, requests, controlVars, samplerVars, preparation, clientState,
                 undurable, stop, requestsBefore>>

(* Mutant: the rates go on through the drain. *)
RatesGoOn ==
  /\ phase = "boundary" /\ ~rateHeld
  /\ requestsAfter' = requests
  /\ phase' = IF failed THEN "stop" ELSE "flush"
  /\ Register(IF failed THEN {} ELSE {Flusher})
  /\ UNCHANGED <<requests, controlVars, samplerVars, preparation, clientState, undurable, failed,
                 stop, requestsBefore>>

(* rate_windows.finish(); a task that goes on registers the final recorder. *)
RatesFinish ==
  /\ phase = "boundary" /\ ~rateHeld
  /\ rateActive' = FALSE
  /\ requestsAfter' = requests
  /\ phase' = IF failed THEN "stop" ELSE "flush"
  /\ Register(IF failed THEN {} ELSE {Flusher})
  /\ UNCHANGED <<requests, rateHeld, samplerVars, preparation, clientState, undurable, failed, stop,
                 requestsBefore>>

(* The flush is recorded whether it succeeds or fails; only a success goes  *)
(* on to the durability drain.                                              *)
FlushEnds ==
  /\ phase = "flush"
  /\ Record(Flusher)
  /\ \/ phase' = "durable" /\ UNCHANGED failed
     \/ phase' = "stop" /\ failed' = TRUE
  /\ UNCHANGED <<requests, controlVars, samplerVars, preparation, clientState, undurable, stop,
                 requestsBefore, requestsAfter>>

(* Mutant: the tracker is not waited for. *)
DurableNotAwaited ==
  /\ phase = "durable"
  /\ phase' = "stop"
  /\ UNCHANGED <<recorderVars, requests, controlVars, samplerVars, preparation, clientState,
                 undurable, failed, stop, requestsBefore, requestsAfter>>

(* DurabilityTracker::finish returns every sample, or an error. *)
DurableEnds ==
  /\ phase = "durable"
  /\ \/ undurable = 0 /\ UNCHANGED failed
     \/ failed' = TRUE
  /\ phase' = "stop"
  /\ UNCHANGED <<recorderVars, requests, controlVars, samplerVars, preparation, clientState,
                 undurable, stop, requestsBefore, requestsAfter>>

(* Mutant: the sampler is joined without having been stopped. *)
StopForgotten ==
  /\ phase = "stop"
  /\ phase' = "joining"
  /\ UNCHANGED <<recorderVars, requests, controlVars, samplerVars, preparation,
                 clientState, undurable, failed, stop, requestsBefore, requestsAfter>>

StopSent ==
  /\ phase = "stop"
  /\ stop' = TRUE
  /\ phase' = "joining"
  /\ UNCHANGED <<recorderVars, requests, controlVars, samplerVars, preparation, clientState,
                 undurable, failed, requestsBefore, requestsAfter>>

SamplerJoined ==
  /\ phase = "joining" /\ samplerState = "returned"
  /\ phase' = IF failed THEN "failed" ELSE "done"
  /\ UNCHANGED <<recorderVars, requests, controlVars, samplerVars, preparation, clientState,
                 undurable, failed, stop, requestsBefore, requestsAfter>>

Returned == phase \in Outcomes /\ UNCHANGED vars

-----------------------------------------------------------------------------
Sampling ==
  \/ SamplerStarts \/ SamplerReady
  \/ LoopContinues \/ LoopEnds \/ TickBegins
  \/ \E r \in Recorders : DrainSwaps(r)
  \/ DrainMerges \/ SampleEnds

Measuring ==
  \/ TaskStarts
  \/ \E c \in Clients : ClientSpawned(c) \/ ClientCalls(c) \/ ClientStops(c)
  \/ DurableRecorded
  \/ ClientsEnd \/ RatesFinish \/ FlushEnds \/ DurableEnds \/ StopSent \/ SamplerJoined

Next ==
  \/ phase \notin Outcomes /\ (Sampling \/ Measuring \/ StoreRequest)
  \/ Returned

Spec == Init /\ [][Next]_vars

(* The runtime schedules the sampler and the task.  The boundary's lock is  *)
(* free nearly all of the time, and a thread blocked on it gets it.  No     *)
(* tick, call or request has to happen, and any number of them may.         *)
Fairness ==
  /\ WF_vars(Sampling /\ ~TickBegins)
  /\ WF_vars(TaskStarts \/ ClientsEnd \/ FlushEnds \/ DurableEnds \/ StopSent \/ SamplerJoined)
  /\ SF_vars(RatesFinish)
  /\ \A c \in Clients : WF_vars(ClientSpawned(c) \/ ClientStops(c))

FairSpec == Spec /\ Fairness

-----------------------------------------------------------------------------
Counts == [Recorders -> Nat]

(* Every variable keeps its type, and the store windows together hold no    *)
(* more requests than were made.                                            *)
TypeOK ==
  /\ registered \subseteq Recorders
  /\ active \in Counts /\ spare \in Counts /\ recorded \in Counts
  /\ requests \in Nat
  /\ rateActive \in BOOLEAN /\ rateHeld \in BOOLEAN
  /\ samplerState \in {"start", "ready", "loop", "wait", "drain", "merge", "returned"}
  /\ final \in BOOLEAN /\ ready \in BOOLEAN
  /\ toDrain \subseteq Recorders /\ holding \subseteq Recorders
  /\ held \in Nat /\ merged \in Counts
  /\ total \in Counts /\ rated \in Counts
  /\ storeStart \in Nat /\ previousStore \in Nat /\ storeRated \in 0 .. requests
  /\ preparation \in BOOLEAN
  /\ clientState \in [Clients -> {"new", "running", "stopped"}]
  /\ undurable \in Nat
  /\ phase \in {"baseline", "clients", "boundary", "flush", "durable", "stop", "joining"}
               \union Outcomes
  /\ failed \in BOOLEAN /\ stop \in BOOLEAN
  /\ requestsBefore \in Nat /\ requestsAfter \in Nat

(* What a drain holds of recorder r between its swap and its merge. *)
InHand(r) == IF r \in holding THEN held ELSE 0

(* While samples swap the buffers under the recorders, every recorded call  *)
(* is in exactly one place: none is lost between two windows or counted by  *)
(* both.                                                                    *)
CountedOnce ==
  \A r \in Recorders : recorded[r] = active[r] + InHand(r) + merged[r] + total[r]

(* docs/BENCHMARKS.md: rates exclude the durability drain.  No rate window  *)
(* holds the final flush, nor an object-store request made after the        *)
(* clients' boundary, not even the window whose sample is in progress then. *)
RatesExcludeDrain ==
  /\ rated[Flusher] = 0
  /\ ~preparation /\ phase \in {"flush", "durable", "stop", "joining"} \union Outcomes =>
       storeStart + storeRated <= requestsAfter

(* A measurement that succeeds holds every call its task recorded, the last *)
(* durable latency and the final flush included.                            *)
MeasurementComplete ==
  phase = "done" =>
    /\ total = recorded
    /\ ~preparation => total[Flusher] = 1 /\ undurable = 0

(* The published store totals cover all of the clients' activity: the       *)
(* baseline is taken before they start, the end after they have stopped.    *)
BaselineCoversClients ==
  phase = "done" => storeStart <= requestsBefore /\ requestsAfter <= previousStore

(* docs/BENCHMARKS.md: a preparation's rates include the partial window at  *)
(* its end; so its windows hold the whole measurement.                      *)
PartialWindowKept ==
  phase = "done" /\ preparation =>
    /\ \A c \in Clients : rated[c] = total[c]
    /\ storeRated = previousStore - storeStart

(* Whatever fails, the task ends once its clients have: the boundary is     *)
(* passed although samples take its lock, and the sampler returns.          *)
TaskEnds == phase \in {"boundary", "stop", "joining"} ~> phase \in Outcomes
=============================================================================
