---------------------------- MODULE Percentiles ----------------------------
(***************************************************************************)
(* The percentiles of a published row: of the rates of its windows, by     *)
(* `summarize_values` (src/system.rs), and of its latencies, by an HDR     *)
(* histogram (src/histogram.rs).                                           *)
(*                                                                         *)
(* A quantile is a number of thousandths.  Percentiles are exact here:     *)
(* rates are counted in a unit in which they are whole.                    *)
(***************************************************************************)
EXTENDS Naturals, Sequences, Functions

Quantiles == {1, 10, 500, 990, 999}

(* (quantile * (n - 1)).round(), the index into n sorted values. *)
PercentileIndex(k, n) == (2 * k * (n - 1) + 1000) \div 2000

(* ceil(quantile * n), at least 1: the rank among n recorded latencies. *)
QuantileRank(k, n) ==
  LET rank == (k * n + 999) \div 1000 IN IF rank > 1 THEN rank ELSE 1

(* The value at an index of the values, sorted; the first has index 0. *)
Sorted(values) ==
  LET places == DOMAIN values
      order == CHOOSE p \in Bijection(places, places) :
                 \A i, j \in places : i <= j => values[p[i]] <= values[p[j]]
  IN  [i \in places |-> values[order[i]]]
Percentile(k, values) == Sorted(values)[PercentileIndex(k, Len(values)) + 1]

-----------------------------------------------------------------------------
(* A histogram counts latencies by the upper bound of their bucket. *)

Count(histogram) == SumFunction(histogram)

Recorded(histogram) == {b \in DOMAIN histogram : histogram[b] > 0}

UpTo(histogram, bound) ==
  SumFunctionOnSet(histogram, {b \in DOMAIN histogram : b <= bound})

(* value_at_quantile: the bound of the bucket that holds the rank. *)
ValueAtQuantile(k, histogram) ==
  CHOOSE b \in Recorded(histogram) :
    /\ UpTo(histogram, b) >= QuantileRank(k, Count(histogram))
    /\ \A c \in Recorded(histogram) :
         UpTo(histogram, c) >= QuantileRank(k, Count(histogram)) => b <= c
=============================================================================
