------------------------------ MODULE Histogram ------------------------------
(***************************************************************************)
(* metrics.Histogram: each observation is counted in one bucket, and the   *)
(* buckets are added up when they are rendered.                            *)
(***************************************************************************)
EXTENDS Integers, Sequences, FiniteSets

CONSTANTS Bounds, \* the upper bounds of the buckets
          Value   \* the values observed

\* defaultBounds are in ascending order, and so are those of the test.
ASSUME HistogramAssumption ==
    /\ Bounds \in Seq(Int) /\ Bounds # <<>>
    /\ \A i, j \in DOMAIN Bounds : i < j => Bounds[i] <= Bounds[j]
    /\ Value \subseteq Int

VARIABLES values, \* ghost: the values observed so far
          buckets \* the histogram that has observed them

histogramVars == <<values, buckets>>

New(bounds) == [bounds |-> bounds, counts |-> [i \in 1..(Len(bounds) + 1) |-> 0], count |-> 0]

\* The loop without its break: every bucket from the right one on.
BucketsOfAll(bounds, v) ==
    {i \in DOMAIN bounds : v <= bounds[i]}
        \union {i \in {Len(bounds) + 1} : v > bounds[Len(bounds)]}

\* The first bound that is not below the value, or the bucket after the last.
BucketsOf(bounds, v) ==
    {i \in DOMAIN bounds : v <= bounds[i] /\ \A j \in 1..(i - 1) : v > bounds[j]}
        \union {i \in {Len(bounds) + 1} : v > bounds[Len(bounds)]}

Observe(h, v) ==
    [bounds |-> h.bounds,
     counts |-> [i \in DOMAIN h.counts |->
                    h.counts[i] + IF i \in BucketsOf(h.bounds, v) THEN 1 ELSE 0],
     count  |-> h.count + 1]

\* What is rendered for a bound, or for +Inf behind the last of them.
Rendered(h, n) ==
    LET cum[i \in 0..(Len(h.bounds) + 1)] == IF i = 0 THEN 0 ELSE cum[i - 1] + h.counts[i]
    IN cum[n]

HistogramInit == values = <<>> /\ buckets = New(Bounds)

ObserveValue(v) == values' = Append(values, v) /\ buckets' = Observe(buckets, v)

HistogramSpec == HistogramInit /\ [][\E v \in Value : ObserveValue(v)]_histogramVars

\* Histogram.Observe and renderHistogram: the buckets rendered are what
\* Prometheus takes them for.  Each shows how many of the values are not above
\* its bound, values on a bound included, the last one all of them, which is
\* also the count.
BucketsAddUp ==
    /\ \A i \in DOMAIN Bounds :
          Rendered(buckets, i) = Cardinality({k \in DOMAIN values : values[k] <= Bounds[i]})
    /\ Rendered(buckets, Len(Bounds) + 1) = Len(values)
    /\ buckets.count = Len(values)
=============================================================================
