-------------------------------- MODULE Rows --------------------------------
(***************************************************************************)
(* The published row of an API: a closed-loop client (ClosedLoop) whose    *)
(* recorded calls a sampler divides into windows, and the rates and        *)
(* latencies that SampledMeasurement (src/system.rs) and LatencyHistogram  *)
(* (src/histogram.rs) make of them, which the validation (validation.rs)   *)
(* of result.json and series.json accepts or not.                          *)
(*                                                                         *)
(* The sampler's concurrency is in Sampler.  Averages, which are floating- *)
(* point figures, are left out.                                            *)
(***************************************************************************)
EXTENDS ClosedLoop, Percentiles

CONSTANTS Observed,   \* the APIs whose rows are observed, one in a behaviour
          Latencies,  \* latencies a call may take, in microseconds
          MaxMicros,  \* MAX_MICROSECONDS
          Exact,      \* values below have a bucket of their own
          Durations,  \* widths of a window
          RateUnit,   \* rates are counted in calls per so much time
          MaxSamples  \* bound: samples before the final one

ASSUME RowsAssumption ==
  /\ Observed \subseteq Apis
  /\ Latencies \subseteq Nat /\ MaxMicros \in Nat \ {0} /\ Exact \in Nat
  /\ RateUnit \in Nat
  /\ Durations \subseteq Nat \ {0} /\ \A d \in Durations : RateUnit % d = 0
  /\ MaxSamples \in Nat

VARIABLES
  api,         \* the API whose row is observed
  windowCalls, \* its calls in the current window
  window,      \* their latencies, a histogram
  rates,       \* per sample: the rate of the window it ended
  latencyWindows \* per sample, the final one too: the histogram

rowVars == <<api, windowCalls, window, rates, latencyWindows>>

(* The buckets of the HDR histogram: above Exact they are two units wide,   *)
(* which stands for the doublings of the width with the magnitude.          *)
Lowest(v) == IF v < Exact THEN v ELSE v - (v % 2)
Highest(v) == IF v < Exact THEN v ELSE v - (v % 2) + 1
Bounds == {Highest(v) : v \in 1 .. MaxMicros}

NoLatencies == [b \in Bounds |-> 0]

RowsInit ==
  /\ Init
  /\ api \in Observed
  /\ windowCalls = 0 /\ window = NoLatencies
  /\ rates = <<>> /\ latencyWindows = <<>>

(* Mutant: a latency out of the bounds is given up, as record_n would. *)
RecordUnclamped(histogram, latency) ==
  IF latency \in 1 .. MaxMicros
  THEN [histogram EXCEPT ![Highest(latency)] = @ + 1] ELSE histogram

(* LatencyHistogram::record: durations are clamped to its bounds. *)
Record(histogram, latency) ==
  LET micros == IF latency < 1 THEN 1 ELSE IF latency > MaxMicros THEN MaxMicros ELSE latency
  IN [histogram EXCEPT ![Highest(micros)] = @ + 1]

(* ApplicationShard: each recorded call is counted, and its latency too. *)
CallRecorded ==
  IF calls'[api] = calls[api]
  THEN UNCHANGED <<windowCalls, window>>
  ELSE /\ windowCalls' = windowCalls + 1
       /\ \E latency \in Latencies : window' = Record(window, latency)

Client ==
  /\ Get \/ Put \/ ScanBegins \/ ScanNext \/ ScanNextFails \/ ScanEnds
     \/ TransactionBegins \/ TransactionReads \/ TransactionUpdates \/ TransactionEnds
  /\ CallRecorded
  /\ UNCHANGED <<api, rates, latencyWindows>>

(* A sample drains the registry into a rate window and a latency window. *)
Samples ==
  /\ phase = "running" /\ Len(rates) < MaxSamples
  /\ \E duration \in Durations :
       rates' = Append(rates, windowCalls * (RateUnit \div duration))
  /\ latencyWindows' = Append(latencyWindows, window)
  /\ windowCalls' = 0 /\ window' = NoLatencies
  /\ UNCHANGED <<vars, api>>

(* The final sample, before the judgement: its window has no rate. *)
Ends ==
  /\ PhaseEnds
  /\ latencyWindows' = Append(latencyWindows, window)
  /\ windowCalls' = 0 /\ window' = NoLatencies
  /\ UNCHANGED <<api, rates>>

RowsNext == Client \/ Samples \/ Ends \/ (Returned /\ UNCHANGED rowVars)

RowsSpec == RowsInit /\ [][RowsNext]_<<vars, rowVars>>

-----------------------------------------------------------------------------
(* application_total: the windows' histograms, merged. *)
Total ==
  [b \in Bounds |-> SumFunction([i \in DOMAIN latencyWindows |-> latencyWindows[i][b]])]

(* rate_summary and summary: the percentiles and the extremes. *)
Smallest(values) == Sorted(values)[1]
Greatest(values) == Sorted(values)[Len(values)]

RateRow == [min |-> Smallest(rates), max |-> Greatest(rates),
            at |-> [k \in Quantiles |-> Percentile(k, rates)]]

SummaryOf(histogram) ==
  LET bounds == Recorded(histogram)
      least == CHOOSE b \in bounds : \A c \in bounds : b <= c
  IN [min |-> Lowest(least),
      max |-> CHOOSE b \in bounds : \A c \in bounds : c <= b,
      at |-> [k \in Quantiles |-> ValueAtQuantile(k, histogram)]]

(* validate_ordered *)
Ordered(row) ==
  /\ row.min <= row.at[1] /\ row.at[999] <= row.max
  /\ \A k, m \in Quantiles : k <= m => row.at[k] <= row.at[m]

(* validate_recorded_metrics, of the rows of the API in result.json. *)
ValidMetrics ==
  /\ calls[api] > 0 /\ Count(Total) = calls[api]
  /\ Ordered(RateRow) /\ Ordered(SummaryOf(Total))

(* validate_workload_series, of its latency windows and of its histogram. *)
ValidLatencySeries ==
  /\ \E i \in DOMAIN latencyWindows : Recorded(latencyWindows[i]) # {}
  /\ \A i \in DOMAIN latencyWindows :
       Recorded(latencyWindows[i]) # {} => Ordered(SummaryOf(latencyWindows[i]))

ValidHistogram ==
  /\ \E b \in Recorded(Total) :
       SummaryOf(Total).min <= b /\ \A c \in Recorded(Total) : b <= c
  /\ SummaryOf(Total).max \in Recorded(Total)

-----------------------------------------------------------------------------
(* Every variable keeps its type; each sample has a latency window, and the *)
(* final one has no rate.                                                   *)
RowsTypeOK ==
  /\ TypeOK
  /\ api \in Observed /\ windowCalls \in Nat /\ window \in [Bounds -> Nat]
  /\ rates \in Seq(Nat) /\ latencyWindows \in Seq([Bounds -> Nat])
  /\ Len(latencyWindows) = Len(rates) + (IF phase = "running" THEN 0 ELSE 1)

(* However long its calls took and wherever the samples fell between them,  *)
(* the row of an API that was called is accepted when it is validated: no   *)
(* call is lost between the counter and the histogram, the percentiles are  *)
(* in order, in series that are shorter than the quantiles need as well.    *)
RowAccepted ==
  phase = "accepted" /\ calls[api] > 0 /\ rates # <<>> =>
    ValidMetrics /\ ValidLatencySeries /\ ValidHistogram
=============================================================================
