------------------------------- MODULE Metrics -------------------------------
(***************************************************************************)
(* The latency histogram, the slow-query counter and the error counters    *)
(* (src/monitor/Metrics.h) as the request path feeds them (recordCompletion*)
(* of MonitorHooks.h) and as GET /metrics reads them.  The error types are *)
(* one counter here.                                                       *)
(*                                                                         *)
(* Nothing is locked on the request path: each atomic operation is a step, *)
(* the sum is added to by a compare-and-swap loop, and a page is read line *)
(* by line in the order renderPrometheus writes it (counters before        *)
(* histograms) while the workers go on.  The registry's mutex admits one   *)
(* page at a time.                                                         *)
(***************************************************************************)
EXTENDS Integers, Sequences, Sums

CONSTANTS
  Workers,   (* the threads that serve queries                             *)
  Durations, (* how long a query may take                                  *)
  Bounds,    (* the bounds of the buckets, increasing                      *)
  Threshold, (* slowQueryThresholdSec                                      *)
  MaxServed  (* bound on the queries served                                *)

ASSUME MetricsAssumption ==
  /\ IsFiniteSet(Workers) /\ IsFiniteSet(Durations) /\ Durations \subseteq Nat
  /\ Bounds \in Seq(Nat)
  /\ \A i, j \in 1 .. Len(Bounds) : i < j => Bounds[i] < Bounds[j]
  /\ Threshold \in Nat /\ MaxServed \in Nat

VARIABLES
  buckets, sum, count, (* the histogram                                    *)
  slow, errors,        (* db_slow_queries_total, db_query_errors_total     *)
  pc, took, failed,    (* per worker: where it stands in recordCompletion, *)
  old,                 (* what it records, and the sum it has loaded       *)
  line, page,          (* the next line to read; the lines read so far     *)
  last,                (* the page before                                  *)
  served, wrong,       (* history: recordings begun, by duration; those of *)
                       (* failed queries                                   *)
  quiet                (* history: nothing was recorded during this page   *)

histogram == <<buckets, sum, count>>
figures   == <<histogram, slow, errors>>
history   == <<served, wrong>>
workers   == <<pc, took, failed, old, history>>
scraper   == <<line, page, last>>
vars      == <<figures, workers, scraper, quiet>>

Indices == 1 .. Len(Bounds) + 1
Lines   == 1 .. Len(Bounds) + 5   \* slow, errors, the buckets, sum, count
SlowLine  == 1
ErrorLine == 2
SumLine   == Len(Bounds) + 4
CountLine == Len(Bounds) + 5
Pcs     == {"idle", "bucket", "load", "swap", "count", "error", "slow"}

(* The first bucket whose bound holds the value, or the one of +Inf.       *)
UpTo(v)        == {i \in 1 .. Len(Bounds) : v <= Bounds[i]}
bucketIndex(v) == Min(UpTo(v) \cup {Len(Bounds) + 1})

TypeOK ==
  /\ buckets \in [Indices -> 0 .. MaxServed]
  /\ sum \in 0 .. MaxServed * Max(Durations)
  /\ {count, slow, errors, wrong} \subseteq 0 .. MaxServed
  /\ pc \in [Workers -> Pcs]
  /\ took \in [Workers -> Durations \cup {0}]
  /\ failed \in [Workers -> BOOLEAN] /\ old \in [Workers -> Nat]
  /\ line \in 0 .. CountLine
  /\ DOMAIN page = Lines /\ DOMAIN last = Lines
  /\ served \in [Durations -> 0 .. MaxServed] /\ quiet \in BOOLEAN

Init ==
  /\ buckets = [i \in Indices |-> 0] /\ sum = 0 /\ count = 0
  /\ slow = 0 /\ errors = 0 /\ wrong = 0
  /\ pc = [w \in Workers |-> "idle"]
  /\ took = [w \in Workers |-> 0] /\ old = [w \in Workers |-> 0]
  /\ failed = [w \in Workers |-> FALSE]
  /\ line = 0 /\ page = [i \in Lines |-> 0] /\ last = page
  /\ served = [d \in Durations |-> 0] /\ quiet = TRUE

Step(w, from, to) ==
  /\ pc[w] = from /\ pc' = [pc EXCEPT ![w] = to]
  /\ quiet' = FALSE
  /\ UNCHANGED <<took, failed, history, scraper>>

-----------------------------------------------------------------------------
(* recordCompletion: the duration is observed, a failure and a slow query  *)
(* are counted after it.                                                   *)

Complete(w, d, f) ==
  /\ pc[w] = "idle" /\ Total(served, Durations) < MaxServed
  /\ pc' = [pc EXCEPT ![w] = "bucket"]
  /\ took' = [took EXCEPT ![w] = d] /\ failed' = [failed EXCEPT ![w] = f]
  /\ served' = [served EXCEPT ![d] = @ + 1]
  /\ wrong' = IF f THEN wrong + 1 ELSE wrong
  /\ quiet' = FALSE
  /\ UNCHANGED <<figures, old, scraper>>

IncBucket(w) ==
  /\ Step(w, "bucket", "load")
  /\ buckets' = [buckets EXCEPT ![bucketIndex(took[w])] = @ + 1]
  /\ UNCHANGED <<sum, count, slow, errors, old>>

LoadSum(w) ==
  /\ Step(w, "load", "swap")
  /\ old' = [old EXCEPT ![w] = sum]
  /\ UNCHANGED figures

(* A weak exchange stores only over the value it expects, may fail even    *)
(* so, and loads the value it found; a successful one ends the loop.       *)
AnyValue(w) == TRUE                                              \* mutant
Expected(w) == sum = old[w]
Won         == "count"

SwapSum(w) ==
  \/ /\ Expected(w)
     /\ Step(w, "swap", Won)
     /\ sum' = old[w] + took[w]
     /\ UNCHANGED <<buckets, count, slow, errors, old>>
  \/ /\ Step(w, "swap", "swap")
     /\ old' = [old EXCEPT ![w] = sum]
     /\ UNCHANGED figures

IfSlower(w) == IF took[w] > Threshold THEN "slow" ELSE "idle"    \* mutant
IfSlow(w)   == IF took[w] >= Threshold THEN "slow" ELSE "idle"
IfError(w)  == IF failed[w] THEN "error" ELSE IfSlow(w)

IncCount(w) ==
  /\ Step(w, "count", IfError(w))
  /\ count' = count + 1
  /\ UNCHANGED <<buckets, sum, slow, errors, old>>

RecordError(w) ==
  /\ Step(w, "error", IfSlow(w))
  /\ errors' = errors + 1
  /\ UNCHANGED <<histogram, slow, old>>

IncSlow(w) ==
  /\ Step(w, "slow", "idle")
  /\ slow' = slow + 1
  /\ UNCHANGED <<histogram, errors, old>>

-----------------------------------------------------------------------------
(* renderPrometheus *)

Scrape ==
  /\ line = 0
  /\ line' = 1 /\ last' = page
  /\ quiet' = (\A w \in Workers : pc[w] = "idle")
  /\ UNCHANGED <<figures, workers, page>>

(* Each bucket's line holds the bucket's own counter.                      *)
Value(i) == CASE i = SlowLine  -> slow
              [] i = ErrorLine -> errors
              [] i = SumLine   -> sum
              [] i = CountLine -> count
              [] OTHER         -> buckets[i - 2]

Current   == line

ReadLine ==
  /\ line # 0
  /\ page' = [page EXCEPT ![Current] = Value(Current)]
  /\ line' = IF line = CountLine THEN 0 ELSE line + 1
  /\ UNCHANGED <<figures, workers, last, quiet>>

Worker(w) == \/ \E d \in Durations, f \in BOOLEAN : Complete(w, d, f)
             \/ IncBucket(w) \/ LoadSum(w) \/ SwapSum(w)
             \/ IncCount(w) \/ RecordError(w) \/ IncSlow(w)

Next == Scrape \/ ReadLine \/ \E w \in Workers : Worker(w)

Spec == Init /\ [][Next]_vars

-----------------------------------------------------------------------------
(* Nothing is lost: at any moment each figure is what the recordings begun *)
(* so far amount to but for the workers that have not come to it yet.      *)
Pending(stages) == {w \in Workers : pc[w] \in stages}
Begun(n) == Total([d \in Durations |-> n[d] * served[d]], Durations)

NothingLost ==
  /\ Total(buckets, Indices) + Cardinality(Pending({"bucket"}))
       = Begun([d \in Durations |-> 1])
  /\ sum + Total(took, Pending({"bucket", "load", "swap"}))
       = Begun([d \in Durations |-> d])
  /\ count + Cardinality(Pending({"bucket", "load", "swap", "count"}))
       = Begun([d \in Durations |-> 1])
  /\ slow + Cardinality({w \in Pending(Pcs \ {"idle"}) :
                              took[w] >= Threshold})
       = Begun([d \in Durations |-> IF d >= Threshold THEN 1 ELSE 0])
  /\ errors + Cardinality({w \in Pending(Pcs \ {"idle", "slow"}) : failed[w]})
       = wrong

(* No figure of a page is below the one of the page before: what Prometheus*)
(* would take for a restart of the counter.                                *)
PagesGrow == line = 0 => \A i \in Lines : last[i] <= page[i]

(* The sum, the count, the errors and the slow queries of a page written   *)
(* while nothing is recorded are exact.  Its buckets are another question. *)
QuietPageExact ==
  (line = 0 /\ quiet) =>
    /\ page[SumLine] = Begun([d \in Durations |-> d])
    /\ page[CountLine] = Begun([d \in Durations |-> 1])
    /\ page[ErrorLine] = wrong
    /\ page[SlowLine] =
         Begun([d \in Durations |-> IF d >= Threshold THEN 1 ELSE 0])

(* The line of a page that is labelled with a bound (le) counts the queries*)
(* up to that bound, as histogram_quantile() takes it (the quantile query  *)
(* of src/monitor/README.md).  renderPrometheus writes each bucket's own   *)
(* counter, so only the first line is what its label says.                 *)
BucketsCumulative ==
  (line = 0 /\ quiet) =>
    \A i \in Indices : page[i + 2] =
      Begun([d \in Durations |-> IF i > Len(Bounds) \/ d <= Bounds[i]
                                 THEN 1 ELSE 0])
=============================================================================
