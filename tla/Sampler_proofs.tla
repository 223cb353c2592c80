--------------------------- MODULE Sampler_proofs ---------------------------
(***************************************************************************)
(* The safety properties of Sampler, proved for any set of clients and any *)
(* number of calls, requests and samples.                                  *)
(*                                                                         *)
(* The inductive invariant: BufferInv, what the sampler's buffers hold     *)
(* between the steps of a drain; PhaseInv, how far the task and the        *)
(* sampler can be apart; RecorderInv, who may have recorded by then;       *)
(* DrainedInv, what the final drain leaves behind; StoreInv and RateInv,   *)
(* how the windows add up.                                                 *)
(***************************************************************************)
EXTENDS Sampler, TLAPS

(* A spare buffer is empty, and nothing is in hand outside a drain. *)
BufferInv ==
  /\ \A r \in Recorders : spare[r] = 0
  /\ samplerState # "merge" => holding = {}
  /\ samplerState \notin {"drain", "merge"} => \A r \in Recorders : merged[r] = 0

BeforeBoundary == {"baseline", "clients", "boundary"}

(* The task is past the baseline only with the sampler, and the sampler     *)
(* past its loop only with the task.                                        *)
PhaseInv ==
  /\ phase # "baseline" => ready
  /\ ready => samplerState \notin {"start", "ready"}
  /\ stop <=> phase \in {"joining"} \union Outcomes
  /\ final => stop
  /\ final => samplerState \in {"drain", "merge", "returned"}
  /\ samplerState = "returned" => final
  /\ phase \in Outcomes => samplerState = "returned"
  /\ phase = "done" => ~failed
  /\ phase = "failed" => failed
  /\ preparation => phase \notin {"boundary", "flush", "durable"}
  /\ rateActive <=> preparation \/ phase \in BeforeBoundary

(* Only registered recorders record, none after a task that goes well has   *)
(* joined it, and the flush is recorded once.                               *)
RecorderInv ==
  /\ \A r \in Recorders : recorded[r] # 0 => r \in registered
  /\ \A c \in Clients : clientState[c] = "running" => c \in registered
  /\ \A c \in Clients : clientState[c] = "running" /\ ~preparation => Tracker \in registered
  /\ undurable # 0 => Tracker \in registered
  /\ phase = "flush" => Flusher \in registered
  /\ phase \in BeforeBoundary \union {"flush"} => recorded[Flusher] = 0
  /\ preparation => recorded[Flusher] = 0 /\ undurable = 0
  /\ ~failed /\ phase \notin {"baseline", "clients"} =>
       \A c \in Clients : clientState[c] = "stopped"
  /\ phase = "durable" => recorded[Flusher] = 1
  /\ ~failed /\ phase \in {"stop", "joining", "done"} =>
       undurable = 0 /\ (~preparation => recorded[Flusher] = 1)

(* The final drain leaves nothing in the shards it has visited. *)
DrainedInv ==
  /\ final /\ ~failed => \A r \in Recorders : active[r] # 0 => r \in toDrain
  /\ samplerState = "returned" => toDrain = {}

(* While rates are active the store windows tile the sampled interval. *)
StoreInv ==
  /\ samplerState = "start" => storeStart = 0 /\ previousStore = 0 /\ storeRated = 0
  /\ storeStart + storeRated <= previousStore
  /\ rateActive => storeStart + storeRated = previousStore
  /\ previousStore <= requests
  /\ phase # "baseline" => storeStart <= requestsBefore
  /\ requestsAfter <= requests
  /\ ~preparation /\ phase \notin BeforeBoundary => storeStart + storeRated <= requestsAfter
  /\ samplerState = "returned" => requestsAfter <= previousStore

(* While rates are active the application windows hold the whole total. *)
RateInv ==
  /\ rated[Flusher] = 0
  /\ rateActive => \A r \in Recorders \ {Tracker} : rated[r] = total[r]

Inv ==
  /\ TypeOK
  /\ CountedOnce
  /\ BufferInv
  /\ PhaseInv
  /\ RecorderInv
  /\ DrainedInv
  /\ StoreInv
  /\ RateInv

-----------------------------------------------------------------------------
USE SamplerAssumption

LEMMA InitInv == Init => Inv
<1> SUFFICES ASSUME Init PROVE Inv
  OBVIOUS
<1> USE DEF Init
<1>1. TypeOK
  <2>1. Nothing \in Counts
    BY DEF Counts, Nothing
  <2>2. requests \in Nat /\ storeRated \in 0 .. requests
    OBVIOUS
  <2>3. rateActive \in BOOLEAN /\ rateHeld \in BOOLEAN /\ preparation \in BOOLEAN
    BY Zenon
  <2> QED
    BY <2>1, <2>2, <2>3 DEF TypeOK
<1>2. CountedOnce /\ BufferInv
  BY DEF Nothing, Recorders, CountedOnce, InHand, BufferInv
<1>3. PhaseInv
  BY DEF PhaseInv, BeforeBoundary, Outcomes
<1>4. RecorderInv
  BY DEF Recorders, Nothing, RecorderInv, BeforeBoundary
<1>5. DrainedInv
  BY DEF Nothing, DrainedInv
<1>6. StoreInv
  BY DEF StoreInv, BeforeBoundary
<1>7. RateInv
  BY DEF Recorders, Nothing, RateInv
<1> QED
  BY <1>1, <1>2, <1>3, <1>4, <1>5, <1>6, <1>7 DEF Inv

(* A step keeps the types; store windows do not overlap. *)
LEMMA TypeKept == TypeOK /\ StoreInv /\ [Next]_vars => TypeOK'
<1> SUFFICES ASSUME TypeOK /\ StoreInv, [Next]_vars PROVE TypeOK'
  OBVIOUS
<1> USE DEF TypeOK, StoreInv, Counts, Nothing, Recorders, Outcomes, recorderVars, controlVars, samplerVars, sampleVars, sumVars, taskVars
<1>1. CASE StoreRequest
  BY <1>1 DEF StoreRequest
<1>2. CASE SamplerStarts
  BY <1>2 DEF SamplerStarts
<1>3. CASE SamplerReady
  BY <1>3 DEF SamplerReady
<1>4. CASE LoopContinues
  BY <1>4 DEF LoopContinues
<1>5. CASE LoopEnds
  BY <1>5 DEF LoopEnds, DrainStarts
<1>6. CASE TickBegins
  BY <1>6 DEF TickBegins, DrainStarts
<1>7. ASSUME NEW r \in Recorders, DrainSwaps(r) PROVE TypeOK'
  BY <1>7 DEF DrainSwaps
<1>8. CASE DrainMerges
  BY <1>8 DEF DrainMerges
<1>9. CASE SampleEnds
  <2>1. total' \in Counts /\ merged' \in Counts
    BY <1>9 DEF SampleEnds
  <2>2. Operations(merged) \in Counts
    BY DEF Operations
  <2>3. rated' \in Counts /\ storeRated' \in 0 .. requests'
    BY <1>9, <2>2 DEF SampleEnds, PushRateWindow, Difference
  <2> QED
    BY <1>9, <2>1, <2>3 DEF SampleEnds
<1>10. CASE TaskStarts
  BY <1>10 DEF TaskStarts
<1>11. ASSUME NEW c \in Clients, ClientSpawned(c) PROVE TypeOK'
  BY <1>11 DEF ClientSpawned, Register
<1>12. ASSUME NEW c \in Clients, ClientCalls(c) PROVE TypeOK'
  BY <1>12 DEF ClientCalls, Record
<1>13. ASSUME NEW c \in Clients, ClientStops(c) PROVE TypeOK'
  BY <1>13 DEF ClientStops
<1>14. CASE DurableRecorded
  BY <1>14 DEF DurableRecorded, Record
<1>15. CASE ClientsEnd
  <2>1. failed' \in BOOLEAN
    BY <1>15, Zenon DEF ClientsEnd
  <2> QED
    BY <1>15, <2>1 DEF ClientsEnd
<1>16. CASE RatesFinish
  BY <1>16 DEF RatesFinish, Register
<1>17. CASE FlushEnds
  <2>1. active' \in Counts /\ recorded' \in Counts
    BY <1>17 DEF FlushEnds, Record
  <2>2. phase' \in {"durable", "stop"} /\ failed' \in BOOLEAN
    BY <1>17, Zenon DEF FlushEnds
  <2> QED
    BY <1>17, <2>1, <2>2 DEF FlushEnds, Record
<1>18. CASE DurableEnds
  <2>1. failed' \in BOOLEAN
    BY <1>18, Zenon DEF DurableEnds
  <2> QED
    BY <1>18, <2>1 DEF DurableEnds
<1>19. CASE StopSent
  BY <1>19 DEF StopSent
<1>20. CASE SamplerJoined
  BY <1>20 DEF SamplerJoined
<1>21. CASE Returned
  BY <1>21 DEF Returned, vars
<1>22. CASE UNCHANGED vars
  BY <1>22 DEF vars
<1> QED
  BY <1>1, <1>2, <1>3, <1>4, <1>5, <1>6, <1>7, <1>8, <1>9, <1>10, <1>11, <1>12, <1>13, <1>14, <1>15, <1>16, <1>17, <1>18, <1>19, <1>20, <1>21, <1>22 DEF Next, Sampling, Measuring

(* A step moves counts, or adds one to a shard. *)
LEMMA CountedOnceKept == TypeOK /\ CountedOnce /\ BufferInv /\ [Next]_vars => CountedOnce'
<1> SUFFICES ASSUME TypeOK /\ CountedOnce /\ BufferInv, [Next]_vars PROVE CountedOnce'
  OBVIOUS
<1> USE DEF TypeOK, Counts, CountedOnce, BufferInv, InHand, Nothing, recorderVars, controlVars, samplerVars, sampleVars, sumVars, taskVars
<1>1. CASE StoreRequest
  BY <1>1 DEF StoreRequest
<1>2. CASE SamplerStarts
  BY <1>2 DEF SamplerStarts
<1>3. CASE SamplerReady
  BY <1>3 DEF SamplerReady
<1>4. CASE LoopContinues
  BY <1>4 DEF LoopContinues
<1>5. CASE LoopEnds
  BY <1>5 DEF LoopEnds, DrainStarts
<1>6. CASE TickBegins
  BY <1>6 DEF TickBegins, DrainStarts
<1>7. ASSUME NEW r \in Recorders, DrainSwaps(r) PROVE CountedOnce'
  BY <1>7 DEF DrainSwaps
<1>8. CASE DrainMerges
  BY <1>8 DEF DrainMerges
<1>9. CASE SampleEnds
  BY <1>9 DEF SampleEnds, PushRateWindow, Operations, Difference
<1>10. CASE TaskStarts
  BY <1>10 DEF TaskStarts
<1>11. ASSUME NEW c \in Clients, ClientSpawned(c) PROVE CountedOnce'
  BY <1>11 DEF ClientSpawned, Register
<1>12. ASSUME NEW c \in Clients, ClientCalls(c) PROVE CountedOnce'
  <2>1. c \in Recorders
    BY DEF Recorders
  <2> QED
    BY <1>12, <2>1 DEF ClientCalls, Record
<1>13. ASSUME NEW c \in Clients, ClientStops(c) PROVE CountedOnce'
  BY <1>13 DEF ClientStops
<1>14. CASE DurableRecorded
  BY <1>14 DEF DurableRecorded, Record
<1>15. CASE ClientsEnd
  BY <1>15 DEF ClientsEnd
<1>16. CASE RatesFinish
  BY <1>16 DEF RatesFinish, Register
<1>17. CASE FlushEnds
  <2>1. Flusher \in Recorders
    BY DEF Recorders
  <2> QED
    BY <1>17, <2>1 DEF FlushEnds, Record
<1>18. CASE DurableEnds
  BY <1>18 DEF DurableEnds
<1>19. CASE StopSent
  BY <1>19 DEF StopSent
<1>20. CASE SamplerJoined
  BY <1>20 DEF SamplerJoined
<1>21. CASE Returned
  BY <1>21 DEF Returned, vars
<1>22. CASE UNCHANGED vars
  BY <1>22 DEF vars
<1> QED
  BY <1>1, <1>2, <1>3, <1>4, <1>5, <1>6, <1>7, <1>8, <1>9, <1>10, <1>11, <1>12, <1>13, <1>14, <1>15, <1>16, <1>17, <1>18, <1>19, <1>20, <1>21, <1>22 DEF Next, Sampling, Measuring

(* A drain resets what it puts back. *)
LEMMA BufferKept == TypeOK /\ BufferInv /\ [Next]_vars => BufferInv'
<1> SUFFICES ASSUME TypeOK /\ BufferInv, [Next]_vars PROVE BufferInv'
  OBVIOUS
<1> USE DEF TypeOK, Counts, BufferInv, Nothing, recorderVars, controlVars, samplerVars, sampleVars, sumVars, taskVars
<1>1. CASE StoreRequest
  BY <1>1 DEF StoreRequest
<1>2. CASE SamplerStarts
  BY <1>2 DEF SamplerStarts
<1>3. CASE SamplerReady
  BY <1>3 DEF SamplerReady
<1>4. CASE LoopContinues
  BY <1>4 DEF LoopContinues
<1>5. CASE LoopEnds
  BY <1>5 DEF LoopEnds, DrainStarts
<1>6. CASE TickBegins
  BY <1>6 DEF TickBegins, DrainStarts
<1>7. ASSUME NEW r \in Recorders, DrainSwaps(r) PROVE BufferInv'
  BY <1>7 DEF DrainSwaps
<1>8. CASE DrainMerges
  BY <1>8 DEF DrainMerges
<1>9. CASE SampleEnds
  BY <1>9 DEF SampleEnds, PushRateWindow, Operations, Difference
<1>10. CASE TaskStarts
  BY <1>10 DEF TaskStarts
<1>11. ASSUME NEW c \in Clients, ClientSpawned(c) PROVE BufferInv'
  BY <1>11 DEF ClientSpawned, Register
<1>12. ASSUME NEW c \in Clients, ClientCalls(c) PROVE BufferInv'
  BY <1>12 DEF ClientCalls, Record
<1>13. ASSUME NEW c \in Clients, ClientStops(c) PROVE BufferInv'
  BY <1>13 DEF ClientStops
<1>14. CASE DurableRecorded
  BY <1>14 DEF DurableRecorded, Record
<1>15. CASE ClientsEnd
  BY <1>15 DEF ClientsEnd
<1>16. CASE RatesFinish
  BY <1>16 DEF RatesFinish, Register
<1>17. CASE FlushEnds
  BY <1>17 DEF FlushEnds, Record
<1>18. CASE DurableEnds
  BY <1>18 DEF DurableEnds
<1>19. CASE StopSent
  BY <1>19 DEF StopSent
<1>20. CASE SamplerJoined
  BY <1>20 DEF SamplerJoined
<1>21. CASE Returned
  BY <1>21 DEF Returned, vars
<1>22. CASE UNCHANGED vars
  BY <1>22 DEF vars
<1> QED
  BY <1>1, <1>2, <1>3, <1>4, <1>5, <1>6, <1>7, <1>8, <1>9, <1>10, <1>11, <1>12, <1>13, <1>14, <1>15, <1>16, <1>17, <1>18, <1>19, <1>20, <1>21, <1>22 DEF Next, Sampling, Measuring

(* The task and the sampler wait for each other. *)
LEMMA PhaseKept == TypeOK /\ PhaseInv /\ [Next]_vars => PhaseInv'
<1> SUFFICES ASSUME TypeOK /\ PhaseInv, [Next]_vars PROVE PhaseInv'
  OBVIOUS
<1> USE DEF TypeOK, PhaseInv, BeforeBoundary, Outcomes, recorderVars, controlVars, samplerVars, sampleVars, sumVars, taskVars
<1>1. CASE StoreRequest
  BY <1>1 DEF StoreRequest
<1>2. CASE SamplerStarts
  BY <1>2 DEF SamplerStarts
<1>3. CASE SamplerReady
  BY <1>3 DEF SamplerReady
<1>4. CASE LoopContinues
  BY <1>4 DEF LoopContinues
<1>5. CASE LoopEnds
  BY <1>5 DEF LoopEnds, DrainStarts
<1>6. CASE TickBegins
  BY <1>6 DEF TickBegins, DrainStarts
<1>7. ASSUME NEW r \in Recorders, DrainSwaps(r) PROVE PhaseInv'
  BY <1>7 DEF DrainSwaps
<1>8. CASE DrainMerges
  BY <1>8 DEF DrainMerges
<1>9. CASE SampleEnds
  BY <1>9 DEF SampleEnds, PushRateWindow, Operations, Difference
<1>10. CASE TaskStarts
  BY <1>10 DEF TaskStarts
<1>11. ASSUME NEW c \in Clients, ClientSpawned(c) PROVE PhaseInv'
  BY <1>11 DEF ClientSpawned, Register
<1>12. ASSUME NEW c \in Clients, ClientCalls(c) PROVE PhaseInv'
  BY <1>12 DEF ClientCalls, Record
<1>13. ASSUME NEW c \in Clients, ClientStops(c) PROVE PhaseInv'
  BY <1>13 DEF ClientStops
<1>14. CASE DurableRecorded
  BY <1>14 DEF DurableRecorded, Record
<1>15. CASE ClientsEnd
  BY <1>15 DEF ClientsEnd
<1>16. CASE RatesFinish
  BY <1>16 DEF RatesFinish, Register
<1>17. CASE FlushEnds
  BY <1>17 DEF FlushEnds, Record
<1>18. CASE DurableEnds
  BY <1>18 DEF DurableEnds
<1>19. CASE StopSent
  BY <1>19 DEF StopSent
<1>20. CASE SamplerJoined
  BY <1>20 DEF SamplerJoined
<1>21. CASE Returned
  BY <1>21 DEF Returned, vars
<1>22. CASE UNCHANGED vars
  BY <1>22 DEF vars
<1> QED
  BY <1>1, <1>2, <1>3, <1>4, <1>5, <1>6, <1>7, <1>8, <1>9, <1>10, <1>11, <1>12, <1>13, <1>14, <1>15, <1>16, <1>17, <1>18, <1>19, <1>20, <1>21, <1>22 DEF Next, Sampling, Measuring

(* Recorders are registered before they record and joined before the stop. *)
LEMMA RecorderKept == TypeOK /\ PhaseInv /\ RecorderInv /\ [Next]_vars => RecorderInv'
<1> SUFFICES ASSUME TypeOK /\ PhaseInv /\ RecorderInv, [Next]_vars PROVE RecorderInv'
  OBVIOUS
<1> USE DEF TypeOK, Counts, PhaseInv, RecorderInv, BeforeBoundary, Outcomes, Recorders, recorderVars, controlVars, samplerVars, sampleVars, sumVars, taskVars
<1>1. CASE StoreRequest
  BY <1>1 DEF StoreRequest
<1>2. CASE SamplerStarts
  BY <1>2 DEF SamplerStarts
<1>3. CASE SamplerReady
  BY <1>3 DEF SamplerReady
<1>4. CASE LoopContinues
  BY <1>4 DEF LoopContinues
<1>5. CASE LoopEnds
  BY <1>5 DEF LoopEnds, DrainStarts
<1>6. CASE TickBegins
  BY <1>6 DEF TickBegins, DrainStarts
<1>7. ASSUME NEW r \in Recorders, DrainSwaps(r) PROVE RecorderInv'
  BY <1>7 DEF DrainSwaps
<1>8. CASE DrainMerges
  BY <1>8 DEF DrainMerges
<1>9. CASE SampleEnds
  BY <1>9 DEF SampleEnds, PushRateWindow, Operations, Difference
<1>10. CASE TaskStarts
  BY <1>10 DEF TaskStarts
<1>11. ASSUME NEW c \in Clients, ClientSpawned(c) PROVE RecorderInv'
  BY <1>11 DEF ClientSpawned, Register
<1>12. ASSUME NEW c \in Clients, ClientCalls(c) PROVE RecorderInv'
  BY <1>12 DEF ClientCalls, Record
<1>13. ASSUME NEW c \in Clients, ClientStops(c) PROVE RecorderInv'
  BY <1>13 DEF ClientStops
<1>14. CASE DurableRecorded
  BY <1>14 DEF DurableRecorded, Record
<1>15. CASE ClientsEnd
  BY <1>15 DEF ClientsEnd
<1>16. CASE RatesFinish
  BY <1>16 DEF RatesFinish, Register
<1>17. CASE FlushEnds
  BY <1>17 DEF FlushEnds, Record
<1>18. CASE DurableEnds
  BY <1>18 DEF DurableEnds
<1>19. CASE StopSent
  BY <1>19 DEF StopSent
<1>20. CASE SamplerJoined
  BY <1>20 DEF SamplerJoined
<1>21. CASE Returned
  BY <1>21 DEF Returned, vars
<1>22. CASE UNCHANGED vars
  BY <1>22 DEF vars
<1> QED
  BY <1>1, <1>2, <1>3, <1>4, <1>5, <1>6, <1>7, <1>8, <1>9, <1>10, <1>11, <1>12, <1>13, <1>14, <1>15, <1>16, <1>17, <1>18, <1>19, <1>20, <1>21, <1>22 DEF Next, Sampling, Measuring

(* The final drain starts with every shard that holds a call. *)
LEMMA DrainedKept == TypeOK /\ CountedOnce /\ BufferInv /\ PhaseInv /\ RecorderInv /\ DrainedInv /\ [Next]_vars => DrainedInv'
<1> SUFFICES ASSUME TypeOK /\ CountedOnce /\ BufferInv /\ PhaseInv /\ RecorderInv /\ DrainedInv, [Next]_vars PROVE DrainedInv'
  OBVIOUS
<1> USE DEF TypeOK, Counts, CountedOnce, BufferInv, PhaseInv, RecorderInv, DrainedInv, Outcomes, Recorders, InHand, recorderVars, controlVars, samplerVars, sampleVars, sumVars, taskVars
<1>1. CASE StoreRequest
  BY <1>1 DEF StoreRequest
<1>2. CASE SamplerStarts
  BY <1>2 DEF SamplerStarts
<1>3. CASE SamplerReady
  BY <1>3 DEF SamplerReady
<1>4. CASE LoopContinues
  BY <1>4 DEF LoopContinues
<1>5. CASE LoopEnds
  BY <1>5 DEF LoopEnds, DrainStarts
<1>6. CASE TickBegins
  BY <1>6 DEF TickBegins, DrainStarts
<1>7. ASSUME NEW r \in Recorders, DrainSwaps(r) PROVE DrainedInv'
  BY <1>7 DEF DrainSwaps
<1>8. CASE DrainMerges
  BY <1>8 DEF DrainMerges
<1>9. CASE SampleEnds
  BY <1>9 DEF SampleEnds, PushRateWindow, Operations, Difference
<1>10. CASE TaskStarts
  BY <1>10 DEF TaskStarts
<1>11. ASSUME NEW c \in Clients, ClientSpawned(c) PROVE DrainedInv'
  BY <1>11 DEF ClientSpawned, Register
<1>12. ASSUME NEW c \in Clients, ClientCalls(c) PROVE DrainedInv'
  BY <1>12 DEF ClientCalls, Record
<1>13. ASSUME NEW c \in Clients, ClientStops(c) PROVE DrainedInv'
  BY <1>13 DEF ClientStops
<1>14. CASE DurableRecorded
  <2>1. ~(final /\ ~failed)
    BY <1>14 DEF DurableRecorded
  <2> QED
    BY <1>14, <2>1 DEF DurableRecorded
<1>15. CASE ClientsEnd
  BY <1>15 DEF ClientsEnd
<1>16. CASE RatesFinish
  BY <1>16 DEF RatesFinish, Register
<1>17. CASE FlushEnds
  BY <1>17 DEF FlushEnds, Record
<1>18. CASE DurableEnds
  BY <1>18 DEF DurableEnds
<1>19. CASE StopSent
  BY <1>19 DEF StopSent
<1>20. CASE SamplerJoined
  BY <1>20 DEF SamplerJoined
<1>21. CASE Returned
  BY <1>21 DEF Returned, vars
<1>22. CASE UNCHANGED vars
  BY <1>22 DEF vars
<1> QED
  BY <1>1, <1>2, <1>3, <1>4, <1>5, <1>6, <1>7, <1>8, <1>9, <1>10, <1>11, <1>12, <1>13, <1>14, <1>15, <1>16, <1>17, <1>18, <1>19, <1>20, <1>21, <1>22 DEF Next, Sampling, Measuring

(* The boundary comes after the last store window's snapshot. *)
LEMMA StoreKept == TypeOK /\ PhaseInv /\ StoreInv /\ [Next]_vars => StoreInv'
<1> SUFFICES ASSUME TypeOK /\ PhaseInv /\ StoreInv, [Next]_vars PROVE StoreInv'
  OBVIOUS
<1> USE DEF TypeOK, PhaseInv, StoreInv, BeforeBoundary, Outcomes, recorderVars, controlVars, samplerVars, sampleVars, sumVars, taskVars
<1>1. CASE StoreRequest
  BY <1>1 DEF StoreRequest
<1>2. CASE SamplerStarts
  BY <1>2 DEF SamplerStarts
<1>3. CASE SamplerReady
  BY <1>3 DEF SamplerReady
<1>4. CASE LoopContinues
  BY <1>4 DEF LoopContinues
<1>5. CASE LoopEnds
  BY <1>5 DEF LoopEnds, DrainStarts
<1>6. CASE TickBegins
  BY <1>6 DEF TickBegins, DrainStarts
<1>7. ASSUME NEW r \in Recorders, DrainSwaps(r) PROVE StoreInv'
  BY <1>7 DEF DrainSwaps
<1>8. CASE DrainMerges
  BY <1>8 DEF DrainMerges
<1>9. CASE SampleEnds
  BY <1>9 DEF SampleEnds, PushRateWindow, Operations, Difference
<1>10. CASE TaskStarts
  BY <1>10 DEF TaskStarts
<1>11. ASSUME NEW c \in Clients, ClientSpawned(c) PROVE StoreInv'
  BY <1>11 DEF ClientSpawned, Register
<1>12. ASSUME NEW c \in Clients, ClientCalls(c) PROVE StoreInv'
  BY <1>12 DEF ClientCalls, Record
<1>13. ASSUME NEW c \in Clients, ClientStops(c) PROVE StoreInv'
  BY <1>13 DEF ClientStops
<1>14. CASE DurableRecorded
  BY <1>14 DEF DurableRecorded, Record
<1>15. CASE ClientsEnd
  BY <1>15 DEF ClientsEnd
<1>16. CASE RatesFinish
  BY <1>16 DEF RatesFinish, Register
<1>17. CASE FlushEnds
  BY <1>17 DEF FlushEnds, Record
<1>18. CASE DurableEnds
  BY <1>18 DEF DurableEnds
<1>19. CASE StopSent
  BY <1>19 DEF StopSent
<1>20. CASE SamplerJoined
  BY <1>20 DEF SamplerJoined
<1>21. CASE Returned
  BY <1>21 DEF Returned, vars
<1>22. CASE UNCHANGED vars
  BY <1>22 DEF vars
<1> QED
  BY <1>1, <1>2, <1>3, <1>4, <1>5, <1>6, <1>7, <1>8, <1>9, <1>10, <1>11, <1>12, <1>13, <1>14, <1>15, <1>16, <1>17, <1>18, <1>19, <1>20, <1>21, <1>22 DEF Next, Sampling, Measuring

(* No flush is recorded while rates are active. *)
LEMMA RateKept == TypeOK /\ CountedOnce /\ PhaseInv /\ RecorderInv /\ RateInv /\ [Next]_vars => RateInv'
<1> SUFFICES ASSUME TypeOK /\ CountedOnce /\ PhaseInv /\ RecorderInv /\ RateInv, [Next]_vars PROVE RateInv'
  OBVIOUS
<1> USE DEF TypeOK, Counts, CountedOnce, PhaseInv, RecorderInv, RateInv, BeforeBoundary, Outcomes, Recorders, InHand, recorderVars, controlVars, samplerVars, sampleVars, sumVars, taskVars
<1>1. CASE StoreRequest
  BY <1>1 DEF StoreRequest
<1>2. CASE SamplerStarts
  BY <1>2 DEF SamplerStarts
<1>3. CASE SamplerReady
  BY <1>3 DEF SamplerReady
<1>4. CASE LoopContinues
  BY <1>4 DEF LoopContinues
<1>5. CASE LoopEnds
  BY <1>5 DEF LoopEnds, DrainStarts
<1>6. CASE TickBegins
  BY <1>6 DEF TickBegins, DrainStarts
<1>7. ASSUME NEW r \in Recorders, DrainSwaps(r) PROVE RateInv'
  BY <1>7 DEF DrainSwaps
<1>8. CASE DrainMerges
  BY <1>8 DEF DrainMerges
<1>9. CASE SampleEnds
  <2>1. \A r \in Recorders \ {Tracker} : Operations(merged)[r] = merged[r]
    BY DEF Operations
  <2>2. ASSUME rateActive PROVE merged[Flusher] = 0
    <3>1. recorded[Flusher] = 0
      BY <2>2
    <3>2. recorded[Flusher] = active[Flusher] + InHand(Flusher) + merged[Flusher] + total[Flusher]
      OBVIOUS
    <3>3. InHand(Flusher) \in Nat
      OBVIOUS
    <3>4. active[Flusher] \in Nat /\ merged[Flusher] \in Nat /\ total[Flusher] \in Nat
      OBVIOUS
    <3> HIDE DEF InHand
    <3> QED
      BY <3>1, <3>2, <3>3, <3>4
  <2>3. CASE rateActive
    <3>1. \A r \in Recorders \ {Tracker} : rated'[r] = rated[r] + merged[r]
      BY <1>9, <2>1, <2>3 DEF SampleEnds, PushRateWindow
    <3>2. \A r \in Recorders : total'[r] = total[r] + merged[r]
      BY <1>9 DEF SampleEnds
    <3> QED
      BY <1>9, <2>2, <2>3, <3>1, <3>2 DEF SampleEnds
  <2>4. CASE ~rateActive
    BY <1>9, <2>4 DEF SampleEnds
  <2> QED
    BY <2>3, <2>4
<1>10. CASE TaskStarts
  BY <1>10 DEF TaskStarts
<1>11. ASSUME NEW c \in Clients, ClientSpawned(c) PROVE RateInv'
  BY <1>11 DEF ClientSpawned, Register
<1>12. ASSUME NEW c \in Clients, ClientCalls(c) PROVE RateInv'
  BY <1>12 DEF ClientCalls, Record
<1>13. ASSUME NEW c \in Clients, ClientStops(c) PROVE RateInv'
  BY <1>13 DEF ClientStops
<1>14. CASE DurableRecorded
  BY <1>14 DEF DurableRecorded, Record
<1>15. CASE ClientsEnd
  BY <1>15 DEF ClientsEnd
<1>16. CASE RatesFinish
  BY <1>16 DEF RatesFinish, Register
<1>17. CASE FlushEnds
  BY <1>17 DEF FlushEnds, Record
<1>18. CASE DurableEnds
  BY <1>18 DEF DurableEnds
<1>19. CASE StopSent
  BY <1>19 DEF StopSent
<1>20. CASE SamplerJoined
  BY <1>20 DEF SamplerJoined
<1>21. CASE Returned
  BY <1>21 DEF Returned, vars
<1>22. CASE UNCHANGED vars
  BY <1>22 DEF vars
<1> QED
  BY <1>1, <1>2, <1>3, <1>4, <1>5, <1>6, <1>7, <1>8, <1>9, <1>10, <1>11, <1>12, <1>13, <1>14, <1>15, <1>16, <1>17, <1>18, <1>19, <1>20, <1>21, <1>22 DEF Next, Sampling, Measuring

LEMMA StepInv == Inv /\ [Next]_vars => Inv'
BY TypeKept, CountedOnceKept, BufferKept, PhaseKept, RecorderKept, DrainedKept,
   StoreKept, RateKept DEF Inv

THEOREM Invariance == Spec => []Inv
BY InitInv, StepInv, PTL DEF Spec

(* Every variable of the sampler, the recorders and the task keeps its      *)
(* type, and the store windows hold no more requests than were made.        *)
THEOREM TypeCorrect == Spec => []TypeOK
BY Invariance, PTL DEF Inv

(* Each recorded call is in one place at any moment of any drain: the       *)
(* shard's buffer, the sampler's hand, or the total.                        *)
THEOREM CallsCountedOnce == Spec => []CountedOnce
BY Invariance, PTL DEF Inv

(* Neither the final flush nor an object-store request after the boundary   *)
(* reaches a rate window of a workload.                                     *)
THEOREM RateBoundary == Spec => []RatesExcludeDrain
<1>1. Inv => RatesExcludeDrain
  BY DEF Inv, RateInv, StoreInv, RatesExcludeDrain, BeforeBoundary, Outcomes
<1> QED
  BY <1>1, Invariance, PTL

(* A task that ends well hands over a total of everything recorded.         *)
THEOREM Completeness == Spec => []MeasurementComplete
<1>1. Inv => MeasurementComplete
  <2> SUFFICES ASSUME Inv, phase = "done"
               PROVE  total = recorded /\ (~preparation => total[Flusher] = 1 /\ undurable = 0)
    BY DEF MeasurementComplete
  <2>1. /\ samplerState = "returned" /\ final /\ ~failed /\ toDrain = {} /\ holding = {}
        /\ \A r \in Recorders : merged[r] = 0
    BY DEF Inv, PhaseInv, DrainedInv, BufferInv, Outcomes
  <2>2. \A r \in Recorders : active[r] = 0
    BY <2>1 DEF Inv, DrainedInv
  <2>3. \A r \in Recorders : total[r] = recorded[r]
    BY <2>1, <2>2 DEF Inv, CountedOnce, InHand, TypeOK, Counts
  <2>4. total = recorded
    BY <2>3 DEF Inv, TypeOK, Counts
  <2>5. ~preparation => recorded[Flusher] = 1 /\ undurable = 0
    BY <2>1 DEF Inv, RecorderInv
  <2> QED
    BY <2>4, <2>5
<1> QED
  BY <1>1, Invariance, PTL

(* The store totals span the clients' activity, from before its start to    *)
(* after its end.                                                           *)
THEOREM BaselineCoverage == Spec => []BaselineCoversClients
<1>1. Inv => BaselineCoversClients
  BY DEF Inv, PhaseInv, StoreInv, BaselineCoversClients, Outcomes
<1> QED
  BY <1>1, Invariance, PTL

(* A preparation's rate windows tile its whole recorded interval.           *)
THEOREM PreparationRates == Spec => []PartialWindowKept
<1>1. Inv => PartialWindowKept
  BY DEF Inv, TypeOK, PhaseInv, RateInv, StoreInv, PartialWindowKept, Recorders
<1> QED
  BY <1>1, Invariance, PTL
=============================================================================
