-------------------------------- MODULE Metrics --------------------------------
(****************************************************************************)
(* The metrics collector (src/observability/metrics.cpp): a counter, a      *)
(* histogram and a gauge, as much of it as handle_query() uses.  Each call  *)
(* holds the collector's mutex throughout, so that each is one step.        *)
(****************************************************************************)
EXTENDS Integers, Sequences, SequencesExt

CONSTANT MaxHistogram       \* Histogram::max_size

ASSUME HistogramAssumption == MaxHistogram \in Nat \ {0}

(* What reset() leaves, and a metric that nobody has used yet reads as. *)
Reset == [queries_total |-> 0, durations |-> <<>>, last_result_count |-> 0]

Increment(counter) == counter + 1

(* Mutant of Observe: the newest value is dropped. *)
ObserveFirst(values, v) == SubSeq(Append(values, v), 1, MaxHistogram)

(* The oldest value makes room. *)
Observe(values, v) ==
    LET longer == Append(values, v)
    IN  IF Len(longer) > MaxHistogram THEN Tail(longer) ELSE longer

-------------------------------------------------------------------------------
(* export_prometheus_format(): a histogram is given by three of its values,  *)
(* or not at all while it is empty.                                          *)
Percentile(values, percent) ==
    SortSeq(values, <)[(Len(values) * percent) \div 100 + 1]

Exported(m) ==
    [total |-> m.queries_total, results |-> m.last_result_count,
     percentiles |-> IF m.durations = <<>> THEN <<>>
                     ELSE <<Percentile(m.durations, 50), Percentile(m.durations, 95),
                            Percentile(m.durations, 99)>>]

(* A percentile as it is usually defined: at least that share of the values  *)
(* is not above it, and no more than that share is below it.                 *)
IsPercentile(x, values, percent) ==
    LET n == Len(values)
    IN  /\ 100 * Cardinality({i \in 1..n : values[i] <= x}) >= percent * n
        /\ 100 * Cardinality({i \in 1..n : values[i] < x}) <= percent * n

PercentilesRight(Inputs) ==
    \A values \in Inputs :
        LET p == Exported([Reset EXCEPT !.durations = values]).percentiles
        IN  IF values = <<>> THEN p = <<>>
            ELSE /\ IsPercentile(p[1], values, 50)
                 /\ IsPercentile(p[2], values, 95)
                 /\ IsPercentile(p[3], values, 99)
                 /\ p[1] <= p[2] /\ p[2] <= p[3]

================================================================================
