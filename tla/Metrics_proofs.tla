--------------------------- MODULE Metrics_proofs ---------------------------
(***************************************************************************)
(* The figures of the metrics registry, for any number of workers, queries,*)
(* buckets and durations: no recording is lost between two workers, no     *)
(* figure of a page falls behind the page before, and the sum and the      *)
(* counters of a page written while nothing is recorded are exact.         *)
(***************************************************************************)
EXTENDS Metrics, Sums_proofs

(* The bucket of a value is one of them.                                   *)
LEMMA OneBucket ==
  ASSUME NEW v \in Nat
  PROVE  bucketIndex(v) \in Indices
<1> DEFINE S == UpTo(v) \cup {Len(Bounds) + 1}
<1>1. Len(Bounds) \in Nat
  BY MetricsAssumption DEF MetricsAssumption
<1>2. S \in SUBSET Nat /\ S # {} /\ S \subseteq 1 .. Len(Bounds) + 1
  BY <1>1 DEF UpTo
<1>3. bucketIndex(v) \in S
  BY <1>2, Least DEF bucketIndex
<1> QED
  BY <1>1, <1>2, <1>3 DEF Indices

-----------------------------------------------------------------------------
(* The workers of a set, and what they carry, when one worker moves.       *)
In(w, A) == IF w \in A THEN 1 ELSE 0

(* When one worker moves, the size of a set of workers changes by that worker *)
(* alone.                                                                    *)
LEMMA CardMove ==
  ASSUME NEW w \in Workers, NEW A \in SUBSET Workers, NEW B \in SUBSET Workers,
         \A v \in Workers \ {w} : v \in A <=> v \in B
  PROVE  /\ Cardinality(A) \in Nat /\ Cardinality(B) \in Nat
         /\ Cardinality(B) + In(w, A) = Cardinality(A) + In(w, B)
<1>1. IsFiniteSet(A) /\ IsFiniteSet(B)
  BY FS_Subset, MetricsAssumption DEF MetricsAssumption
<1>2. Cardinality(A) \in Nat /\ Cardinality(B) \in Nat
  BY <1>1, FS_CardinalityType
<1>3. CASE w \in A /\ w \notin B
  <2>1. B = A \ {w}
    BY <1>3
  <2>2. Cardinality(B) = Cardinality(A) - 1
    BY <1>1, <1>3, <2>1, FS_RemoveElement
  <2> QED
    BY <1>2, <1>3, <2>2 DEF In
<1>4. CASE w \notin A /\ w \in B
  <2>1. A = B \ {w}
    BY <1>4
  <2>2. Cardinality(A) = Cardinality(B) - 1
    BY <1>1, <1>4, <2>1, FS_RemoveElement
  <2> QED
    BY <1>2, <1>4, <2>2 DEF In
<1>5. CASE w \in A <=> w \in B
  <2>1. A = B
    BY <1>5
  <2> QED
    BY <1>2, <1>5, <2>1 DEF In
<1> QED
  BY <1>3, <1>4, <1>5

(* When one worker moves, what the workers of a set carry changes by what that *)
(* worker carries.                                                           *)
LEMMA TotalMove ==
  ASSUME NEW w \in Workers, NEW A \in SUBSET Workers, NEW B \in SUBSET Workers,
         NEW f, NEW g, \A v \in Workers : f[v] \in Nat /\ g[v] \in Nat,
         \A v \in Workers \ {w} : (v \in A <=> v \in B) /\ g[v] = f[v]
  PROVE  /\ Total(f, A) \in Nat /\ Total(g, B) \in Nat
         /\ Total(g, B) + (IF w \in A THEN f[w] ELSE 0)
              = Total(f, A) + (IF w \in B THEN g[w] ELSE 0)
<1>1. IsFiniteSet(A) /\ IsFiniteSet(B)
  BY FS_Subset, MetricsAssumption DEF MetricsAssumption
<1>2. Total(f, A) \in Nat /\ Total(g, B) \in Nat
  BY <1>1, TotalNat
<1> DEFINE R == A \ {w}
<1>3. B \ {w} = R /\ IsFiniteSet(R) /\ \A v \in R : f[v] \in Int /\ g[v] = f[v]
  BY <1>1, FS_Subset
<1>4. Total(f, A) = (IF w \in A THEN f[w] ELSE 0) + Total(f, R)
  <2>1. CASE w \in A
    <3>1. \A v \in A : f[v] \in Int
      OBVIOUS
    <3> HIDE DEF R
    <3>2. Total(f, A) = f[w] + Total(f, R)
      BY <1>1, <2>1, <3>1, TotalRemove DEF R
    <3> QED
      BY <2>1, <3>2
  <2>2. CASE w \notin A
    <3>1. R = A
      BY <2>2
    <3> QED
      BY <1>2, <2>2, <3>1
  <2> QED
    BY <2>1, <2>2
<1>5. Total(g, B) = (IF w \in B THEN g[w] ELSE 0) + Total(g, R)
  <2>1. CASE w \in B
    <3>1. \A v \in B : g[v] \in Int
      OBVIOUS
    <3> HIDE DEF R
    <3>2. Total(g, B) = g[w] + Total(g, B \ {w})
      BY <1>1, <2>1, <3>1, TotalRemove
    <3> QED
      BY <1>3, <2>1, <3>2
  <2>2. CASE w \notin B
    <3>1. R = B
      BY <1>3, <2>2
    <3> QED
      BY <1>2, <2>2, <3>1
  <2> QED
    BY <2>1, <2>2
<1> HIDE DEF R
<1>6. Total(g, R) = Total(f, R) /\ Total(f, R) \in Int
  BY <1>3, TotalSame, TotalInt
<1>7. f[w] \in Nat /\ g[w] \in Nat
  OBVIOUS
<1> QED
  BY <1>2, <1>4, <1>5, <1>6, <1>7

-----------------------------------------------------------------------------
(* What is recorded, and where a worker stands with it: it counts an error *)
(* or a slow query only if it has one.                                     *)
Recording ==
  /\ buckets \in [Indices -> Nat]
  /\ sum \in Nat /\ count \in Nat /\ slow \in Nat /\ errors \in Nat
  /\ pc \in [Workers -> Pcs] /\ took \in [Workers -> Nat]
  /\ failed \in [Workers -> BOOLEAN]
  /\ served \in [Durations -> Nat] /\ wrong \in Nat
  /\ \A w \in Workers :
       /\ pc[w] = "slow"  => took[w] >= Threshold
       /\ pc[w] = "error" => failed[w]

(* The others stay where they are. *)
Apart(w) ==
  \A v \in Workers \ {w} :
    pc'[v] = pc[v] /\ took'[v] = took[v] /\ failed'[v] = failed[v]

(* A worker that goes on with its recording, from one place to the next.   *)
Goes(w, from, to) ==
  /\ pc[w] = from /\ pc'[w] = to
  /\ took'[w] = took[w] /\ failed'[w] = failed[w]
  /\ Apart(w) /\ UNCHANGED history

(* A step from one line of a recording to the next moves that worker only.   *)
LEMMA StepGoes ==
  ASSUME Recording, NEW w \in Workers, NEW from, NEW to \in Pcs,
         Step(w, from, to)
  PROVE  Goes(w, from, to) /\ pc' \in [Workers -> Pcs]
BY DEF Recording, Step, Goes, Apart

(* recordCompletion() is entered: the worker gets its query, no figure moves. *)
LEMMA Begins ==
  ASSUME Recording, NEW w \in Workers, NEW d \in Durations, NEW f \in BOOLEAN,
         Complete(w, d, f)
  PROVE  /\ pc[w] = "idle" /\ pc'[w] = "bucket"
         /\ took'[w] = d /\ failed'[w] = f
         /\ Apart(w) /\ UNCHANGED figures
         /\ pc' \in [Workers -> Pcs] /\ took' \in [Workers -> Nat]
         /\ failed' \in [Workers -> BOOLEAN] /\ served' \in [Durations -> Nat]
BY MetricsAssumption DEF MetricsAssumption, Recording, Complete, Apart, Pcs

(* Every step keeps it. *)
LEMMA RecordingKept ==
  ASSUME Recording, NEW w \in Workers, Worker(w) PROVE Recording'
<1> USE DEF Recording
<1>1. ASSUME NEW d \in Durations, NEW f \in BOOLEAN, Complete(w, d, f)
      PROVE  Recording'
  <2>1. wrong' \in Nat
    BY <1>1 DEF Complete
  <2> QED
    BY <1>1, <2>1, Begins DEF Apart, figures, histogram
<1>2. ASSUME NEW from, NEW to \in Pcs, Step(w, from, to),
             to = "slow" => took[w] >= Threshold, to = "error" => failed[w],
             buckets' \in [Indices -> Nat], sum' \in Nat, count' \in Nat,
             slow' \in Nat, errors' \in Nat
      PROVE  Recording'
  <2>1. Goes(w, from, to) /\ pc' \in [Workers -> Pcs]
    BY <1>2, StepGoes
  <2> QED
    BY <1>2, <2>1 DEF Goes, Apart, Step, history
<1>3. CASE IncBucket(w)
  <2>1. took[w] \in Nat
    OBVIOUS
  <2>2. bucketIndex(took[w]) \in Indices
    BY <2>1, OneBucket
  <2>3. buckets' \in [Indices -> Nat]
    BY <1>3, <2>2 DEF IncBucket
  <2> QED
    BY <1>2, <1>3, <2>3 DEF IncBucket, Pcs
<1>4. CASE LoadSum(w)
  BY <1>2, <1>4 DEF LoadSum, Pcs, figures, histogram
<1>5. CASE SwapSum(w)
  <2>1. took[w] \in Nat
    OBVIOUS
  <2>2. CASE /\ Expected(w) /\ Step(w, "swap", Won) /\ sum' = old[w] + took[w]
             /\ UNCHANGED <<buckets, count, slow, errors>>
    BY <1>2, <2>1, <2>2 DEF Expected, Won, Pcs
  <2>3. CASE Step(w, "swap", "swap") /\ UNCHANGED figures
    BY <1>2, <2>3 DEF Pcs, figures, histogram
  <2> QED
    BY <1>5, <2>2, <2>3 DEF SwapSum
<1>6. CASE IncCount(w)
  <2>1. /\ IfError(w) \in Pcs
        /\ IfError(w) = "slow" => took[w] >= Threshold
        /\ IfError(w) = "error" => failed[w]
    BY DEF IfError, IfSlow, Pcs
  <2>2. /\ Step(w, "count", IfError(w)) /\ count' \in Nat
        /\ UNCHANGED <<buckets, sum, slow, errors>>
    BY <1>6 DEF IncCount
  <2>3. /\ buckets' \in [Indices -> Nat] /\ sum' \in Nat /\ slow' \in Nat
        /\ errors' \in Nat
    BY <2>2
  <2> QED
    BY <1>2, <2>1, <2>2, <2>3, Zenon
<1>7. CASE RecordError(w)
  <2>1. /\ IfSlow(w) \in Pcs /\ IfSlow(w) # "error"
        /\ IfSlow(w) = "slow" => took[w] >= Threshold
    BY DEF IfSlow, Pcs
  <2>2. /\ Step(w, "error", IfSlow(w)) /\ errors' \in Nat
        /\ UNCHANGED <<buckets, sum, count, slow>>
    BY <1>7 DEF RecordError, histogram
  <2>3. /\ buckets' \in [Indices -> Nat] /\ sum' \in Nat /\ slow' \in Nat
        /\ count' \in Nat
    BY <2>2
  <2> QED
    BY <1>2, <2>1, <2>2, <2>3, Zenon
<1>8. CASE IncSlow(w)
  BY <1>2, <1>8 DEF IncSlow, histogram, Pcs
<1> QED
  BY <1>1, <1>3, <1>4, <1>5, <1>6, <1>7, <1>8 DEF Worker

-----------------------------------------------------------------------------
(* What the recordings begun amount to, in a figure to which a query of d  *)
(* adds n[d].                                                              *)
LEMMA BegunNat ==
  ASSUME Recording, NEW n \in [Durations -> Nat] PROVE Begun(n) \in Nat
<1> DEFINE b == [d \in Durations |-> n[d] * served[d]]
<1>1. \A x, y \in Nat : x * y \in Nat
  OBVIOUS
<1>2. \A d \in Durations : b[d] \in Nat
  BY <1>1 DEF Recording
<1> HIDE DEF b
<1> QED
  BY <1>2, TotalNat, MetricsAssumption DEF MetricsAssumption, Begun, b

(* A query begun adds its own weight to what all of them weigh together.     *)
LEMMA BegunMore ==
  ASSUME Recording, NEW n \in [Durations -> Nat], NEW d \in Durations,
         served' = [served EXCEPT ![d] = @ + 1]
  PROVE  Begun(n)' = Begun(n) + n[d]
<1> DEFINE b == [e \in Durations |-> n[e] * served[e]]
           c == [e \in Durations |-> n[e] * served'[e]]
<1>1. \A x, y \in Nat : x * y \in Nat /\ x * (y + 1) = x * y + x
  OBVIOUS
<1>2. \A e \in Durations : n[e] \in Nat /\ served[e] \in Nat
  BY DEF Recording
<1>3. \A e \in Durations : b[e] \in Int
  BY <1>1, <1>2
<1>4. /\ served'[d] = served[d] + 1
      /\ \A e \in Durations \ {d} : served'[e] = served[e]
  BY DEF Recording
<1>5. c[d] = b[d] + n[d] /\ \A e \in Durations \ {d} : c[e] = b[e]
  BY <1>1, <1>2, <1>4
<1>6. n[d] \in Int
  BY <1>2
<1> HIDE DEF b, c
<1>7. Total(c, Durations) = Total(b, Durations) + n[d]
  <2>1. IsFiniteSet(Durations)
    BY MetricsAssumption DEF MetricsAssumption
  <2>2. PICK B, C, m : B = b /\ C = c /\ m = n[d]
    OBVIOUS
  <2>3. /\ m \in Int /\ \A e \in Durations : B[e] \in Int
        /\ C[d] = B[d] + m /\ \A e \in Durations \ {d} : C[e] = B[e]
    BY <1>3, <1>5, <1>6, <2>2
  <2>4. Total(C, Durations) = Total(B, Durations) + m
    BY <2>1, <2>3, TotalBump
  <2> QED
    BY <2>2, <2>4
<1>8. Begun(n) = Total(b, Durations) /\ Begun(n)' = Total(c, Durations)
  BY DEF Begun, b, c
<1> QED
  BY <1>7, <1>8

-----------------------------------------------------------------------------
(* Each figure, with the workers that have not come to it yet, is what the *)
(* recordings begun amount to.                                             *)
Ones    == [d \in Durations |-> 1]
Lengths == [d \in Durations |-> d]
Late    == [d \in Durations |-> IF d >= Threshold THEN 1 ELSE 0]
Of(i)   == [d \in Durations |-> IF bucketIndex(d) = i THEN 1 ELSE 0]

ToBucket    == Pending({"bucket"})
ToBucketOf(i) == {w \in ToBucket : bucketIndex(took[w]) = i}
ToSum       == Pending({"bucket", "load", "swap"})
ToCount     == Pending({"bucket", "load", "swap", "count"})
ToSlow      == {w \in Pending(Pcs \ {"idle"}) : took[w] >= Threshold}
ToError     == {w \in Pending(Pcs \ {"idle", "slow"}) : failed[w]}

BucketsKept   == Total(buckets, Indices) + Cardinality(ToBucket) = Begun(Ones)
BucketKept(i) == buckets[i] + Cardinality(ToBucketOf(i)) = Begun(Of(i))
SumKept       == sum + Total(took, ToSum) = Begun(Lengths)
CountKept     == count + Cardinality(ToCount) = Begun(Ones)
SlowKept      == slow + Cardinality(ToSlow) = Begun(Late)
ErrorsKept    == errors + Cardinality(ToError) = wrong

(* A worker that comes to a figure or leaves it, a figure that grows and   *)
(* one that should: what is kept is the balance of the four.               *)
LEMMA Balance ==
  ASSUME NEW w \in Workers, NEW A \in SUBSET Workers, NEW B \in SUBSET Workers,
         \A v \in Workers \ {w} : v \in A <=> v \in B,
         NEW x \in Nat, NEW y \in Nat, NEW n \in Nat, NEW m \in Nat,
         x + Cardinality(A) = n, y + In(w, B) + n = x + In(w, A) + m
  PROVE  y + Cardinality(B) = m
<1>1. /\ Cardinality(A) \in Nat /\ Cardinality(B) \in Nat
      /\ Cardinality(B) + In(w, A) = Cardinality(A) + In(w, B)
  BY CardMove
<1>2. In(w, A) \in Nat /\ In(w, B) \in Nat
  BY DEF In
<1> QED
  BY <1>1, <1>2

(* The weights of the figures. *)
LEMMA Weights ==
  /\ Ones \in [Durations -> Nat] /\ Lengths \in [Durations -> Nat]
  /\ Late \in [Durations -> Nat] /\ \A i : Of(i) \in [Durations -> Nat]
BY MetricsAssumption DEF MetricsAssumption, Ones, Lengths, Late, Of

(* What the queries weigh together stays while none begins.                  *)
LEMMA BegunSame ==
  ASSUME UNCHANGED history, NEW n PROVE Begun(n)' = Begun(n)
BY DEF history, Begun

(* The steps of a recording that is begun, by the figure they feed.        *)
Tallies(w) == /\ Goes(w, "bucket", "load")
              /\ buckets' = [buckets EXCEPT ![bucketIndex(took[w])] = @ + 1]
              /\ UNCHANGED <<sum, count, slow, errors>>
Reads(w)   == /\ Goes(w, "load", "swap") \/ Goes(w, "swap", "swap")
              /\ UNCHANGED <<buckets, sum, count, slow, errors>>
Adds(w)    == /\ Goes(w, "swap", "count") /\ sum' = sum + took[w]
              /\ UNCHANGED <<buckets, count, slow, errors>>
Counts(w)  == /\ Goes(w, "count", IfError(w)) /\ count' = count + 1
              /\ UNCHANGED <<buckets, sum, slow, errors>>
Fails(w)   == /\ Goes(w, "error", IfSlow(w)) /\ errors' = errors + 1
              /\ UNCHANGED <<buckets, sum, count, slow>>
Lags(w)    == /\ Goes(w, "slow", "idle") /\ slow' = slow + 1
              /\ UNCHANGED <<buckets, sum, count, errors>>

(* The steps of a worker are those of the seven kinds above.                 *)
LEMMA WorkerSteps ==
  ASSUME Recording, NEW w \in Workers, Worker(w)
  PROVE  \/ \E d \in Durations, f \in BOOLEAN : Complete(w, d, f)
         \/ Tallies(w) \/ Reads(w) \/ Adds(w)
         \/ Counts(w) \/ Fails(w) \/ Lags(w)
<1> USE StepGoes DEF Pcs
<1>1. CASE IncBucket(w)    BY <1>1 DEF IncBucket, Tallies
<1>2. CASE LoadSum(w)      BY <1>2 DEF LoadSum, Reads, figures, histogram
<1>3. CASE SwapSum(w)
  BY <1>3 DEF SwapSum, Expected, Won, Adds, Reads, figures, histogram
<1>4. CASE IncCount(w)     BY <1>4 DEF IncCount, Counts, IfError, IfSlow
<1>5. CASE RecordError(w)  BY <1>5 DEF RecordError, Fails, IfSlow, histogram
<1>6. CASE IncSlow(w)      BY <1>6 DEF IncSlow, Lags, histogram
<1> QED
  BY <1>1, <1>2, <1>3, <1>4, <1>5, <1>6 DEF Worker

(* The number of queries. *)
LEMMA CountKeeps ==
  ASSUME Recording, Recording', CountKept, NEW w \in Workers, Worker(w)
  PROVE  CountKept'
<1> DEFINE A == ToCount
           B == ToCount'
<1> USE DEF ToCount, Pending
<1>1. A \in SUBSET Workers /\ B \in SUBSET Workers
  OBVIOUS
<1>2. ASSUME Apart(w) PROVE \A v \in Workers \ {w} : v \in A <=> v \in B
  BY <1>2 DEF Apart
<1>3. Begun(Ones) \in Nat /\ count \in Nat /\ count' \in Nat
  BY BegunNat, Weights DEF Recording
<1>4. /\ count + Cardinality(A) = Begun(Ones)
      /\ CountKept' <=> count' + Cardinality(B) = Begun(Ones)'
  BY DEF CountKept
<1> HIDE DEF A, B
<1>5. ASSUME NEW d \in Durations, NEW f \in BOOLEAN, Complete(w, d, f)
      PROVE  CountKept'
  <2>1. Apart(w) /\ count' = count /\ w \notin A /\ w \in B
    BY <1>5, Begins DEF A, B, figures, histogram
  <2>2. Begun(Ones)' = Begun(Ones) + 1
    BY <1>5, BegunMore, Weights DEF Complete, Ones
  <2>3. /\ Begun(Ones)' \in Nat
        /\ count' + In(w, B) + Begun(Ones) = count + In(w, A) + Begun(Ones)'
    BY <1>3, <2>1, <2>2 DEF In
  <2>4. count' + Cardinality(B) = Begun(Ones)'
    BY <1>1, <1>2, <1>3, <1>4, <2>1, <2>3, Balance
  <2> QED
    BY <1>4, <2>4
<1>6. CASE Counts(w)
  <2>1. Apart(w) /\ count' = count + 1 /\ w \in A /\ w \notin B
    BY <1>6 DEF A, B, Counts, Goes, IfError, IfSlow
  <2>2. Begun(Ones)' = Begun(Ones)
    BY <1>6, BegunSame DEF Counts, Goes
  <2>3. /\ Begun(Ones)' \in Nat
        /\ count' + In(w, B) + Begun(Ones) = count + In(w, A) + Begun(Ones)'
    BY <1>3, <2>1, <2>2 DEF In
  <2>4. count' + Cardinality(B) = Begun(Ones)'
    BY <1>1, <1>2, <1>3, <1>4, <2>1, <2>3, Balance
  <2> QED
    BY <1>4, <2>4
<1>7. CASE Tallies(w) \/ Reads(w) \/ Adds(w) \/ Fails(w) \/ Lags(w)
  <2>1. /\ Apart(w) /\ UNCHANGED history /\ count' = count
        /\ w \in A <=> w \in B
    BY <1>7 DEF A, B, Tallies, Reads, Adds, Fails, Lags, Goes, IfSlow
  <2>2. A = B
    BY <1>1, <1>2, <2>1
  <2> QED
    BY <1>4, <2>1, <2>2, BegunSame
<1> QED
  BY <1>5, <1>6, <1>7, WorkerSteps

(* The slow queries: only they go to where one is counted.                 *)
LEMMA SlowKeeps ==
  ASSUME Recording, Recording', SlowKept, NEW w \in Workers, Worker(w)
  PROVE  SlowKept'
<1> DEFINE A == ToSlow
           B == ToSlow'
<1> USE DEF ToSlow, Pending
<1>1. A \in SUBSET Workers /\ B \in SUBSET Workers
  OBVIOUS
<1>2. ASSUME Apart(w) PROVE \A v \in Workers \ {w} : v \in A <=> v \in B
  BY <1>2 DEF Apart
<1>3. Begun(Late) \in Nat /\ slow \in Nat /\ slow' \in Nat
  BY BegunNat, Weights DEF Recording
<1>4. /\ slow + Cardinality(A) = Begun(Late)
      /\ SlowKept' <=> slow' + Cardinality(B) = Begun(Late)'
  BY DEF SlowKept
<1> HIDE DEF A, B
<1>5. ASSUME NEW d \in Durations, NEW f \in BOOLEAN, Complete(w, d, f)
      PROVE  SlowKept'
  <2>1. Apart(w) /\ slow' = slow /\ w \notin A /\ (w \in B <=> d >= Threshold)
    BY <1>5, Begins DEF A, B, figures, Pcs
  <2>2. Begun(Late)' = Begun(Late) + In(w, B)
    <3>1. Begun(Late)' = Begun(Late) + Late[d]
      BY <1>5, BegunMore, Weights DEF Complete
    <3>2. Late[d] = In(w, B)
      BY <2>1 DEF Late, In
    <3> QED
      BY <3>1, <3>2
  <2>3. In(w, A) = 0 /\ In(w, B) \in Nat
    BY <2>1 DEF In
  <2>4. /\ Begun(Late)' \in Nat
        /\ slow' + In(w, B) + Begun(Late) = slow + In(w, A) + Begun(Late)'
    BY <1>3, <2>1, <2>2, <2>3
  <2>5. slow' + Cardinality(B) = Begun(Late)'
    BY <1>1, <1>2, <1>3, <1>4, <2>1, <2>4, Balance
  <2> QED
    BY <1>4, <2>5
<1>6. CASE Lags(w)
  <2>1. Apart(w) /\ slow' = slow + 1 /\ w \in A /\ w \notin B
    BY <1>6 DEF A, B, Lags, Goes, Recording, Pcs
  <2>2. Begun(Late)' = Begun(Late)
    BY <1>6, BegunSame DEF Lags, Goes
  <2>3. /\ Begun(Late)' \in Nat
        /\ slow' + In(w, B) + Begun(Late) = slow + In(w, A) + Begun(Late)'
    BY <1>3, <2>1, <2>2 DEF In
  <2>4. slow' + Cardinality(B) = Begun(Late)'
    BY <1>1, <1>2, <1>3, <1>4, <2>1, <2>3, Balance
  <2> QED
    BY <1>4, <2>4
<1>7. CASE Tallies(w) \/ Reads(w) \/ Adds(w) \/ Counts(w) \/ Fails(w)
  <2>1. Apart(w) /\ UNCHANGED history /\ slow' = slow
    BY <1>7 DEF Tallies, Reads, Adds, Counts, Fails, Goes
  <2>2. w \in A <=> w \in B
    BY <1>7 DEF A, B, Tallies, Reads, Adds, Counts, Fails, Goes, IfError, IfSlow,
                Pcs, Recording
  <2>3. A = B
    BY <1>1, <1>2, <2>1, <2>2
  <2> QED
    BY <1>4, <2>1, <2>3, BegunSame
<1> QED
  BY <1>5, <1>6, <1>7, WorkerSteps

(* The queries that failed: only they go to where an error is counted.     *)
LEMMA ErrorsKeep ==
  ASSUME Recording, Recording', ErrorsKept, NEW w \in Workers, Worker(w)
  PROVE  ErrorsKept'
<1> DEFINE A == ToError
           B == ToError'
<1> USE DEF ToError, Pending
<1>1. A \in SUBSET Workers /\ B \in SUBSET Workers
  OBVIOUS
<1>2. ASSUME Apart(w) PROVE \A v \in Workers \ {w} : v \in A <=> v \in B
  BY <1>2 DEF Apart
<1>3. wrong \in Nat /\ wrong' \in Nat /\ errors \in Nat /\ errors' \in Nat
  BY DEF Recording
<1>4. /\ errors + Cardinality(A) = wrong
      /\ ErrorsKept' <=> errors' + Cardinality(B) = wrong'
  BY DEF ErrorsKept
<1> HIDE DEF A, B
<1>5. ASSUME NEW d \in Durations, NEW f \in BOOLEAN, Complete(w, d, f)
      PROVE  ErrorsKept'
  <2>1. Apart(w) /\ errors' = errors /\ w \notin A /\ (w \in B <=> f)
    BY <1>5, Begins DEF A, B, figures, Pcs
  <2>2. wrong' = wrong + In(w, B) /\ In(w, A) = 0 /\ In(w, B) \in Nat
    BY <1>3, <1>5, <2>1 DEF Complete, In
  <2>3. errors' + In(w, B) + wrong = errors + In(w, A) + wrong'
    BY <1>3, <2>1, <2>2
  <2>4. errors' + Cardinality(B) = wrong'
    BY <1>1, <1>2, <1>3, <1>4, <2>1, <2>3, Balance
  <2> QED
    BY <1>4, <2>4
<1>6. CASE Fails(w)
  <2>1. Apart(w) /\ errors' = errors + 1 /\ w \in A /\ w \notin B
    BY <1>6 DEF A, B, Fails, Goes, Recording, IfSlow, Pcs
  <2>2. wrong' = wrong
    BY <1>6 DEF Fails, Goes, history
  <2>3. errors' + In(w, B) + wrong = errors + In(w, A) + wrong'
    BY <1>3, <2>1, <2>2 DEF In
  <2>4. errors' + Cardinality(B) = wrong'
    BY <1>1, <1>2, <1>3, <1>4, <2>1, <2>3, Balance
  <2> QED
    BY <1>4, <2>4
<1>7. CASE Tallies(w) \/ Reads(w) \/ Adds(w) \/ Counts(w) \/ Lags(w)
  <2>1. Apart(w) /\ wrong' = wrong /\ errors' = errors
    BY <1>7 DEF Tallies, Reads, Adds, Counts, Lags, Goes, history
  <2>2. w \in A <=> w \in B
    BY <1>7 DEF A, B, Tallies, Reads, Adds, Counts, Lags, Goes, IfError, IfSlow,
                Pcs, Recording
  <2>3. A = B
    BY <1>1, <1>2, <2>1, <2>2
  <2> QED
    BY <1>4, <2>1, <2>3
<1> QED
  BY <1>5, <1>6, <1>7, WorkerSteps

(* The queries of a bucket, and of all of them. *)
LEMMA BucketKeeps ==
  ASSUME Recording, Recording', NEW i \in Indices, BucketKept(i),
         NEW w \in Workers, Worker(w)
  PROVE  BucketKept(i)'
<1> DEFINE A == ToBucketOf(i)
           B == ToBucketOf(i)'
<1> USE DEF ToBucketOf, ToBucket, Pending
<1>1. A \in SUBSET Workers /\ B \in SUBSET Workers
  OBVIOUS
<1>2. ASSUME Apart(w) PROVE \A v \in Workers \ {w} : v \in A <=> v \in B
  BY <1>2 DEF Apart
<1>3. Begun(Of(i)) \in Nat /\ buckets[i] \in Nat /\ buckets'[i] \in Nat
  BY BegunNat, Weights DEF Recording
<1>4. /\ buckets[i] + Cardinality(A) = Begun(Of(i))
      /\ BucketKept(i)' <=> buckets'[i] + Cardinality(B) = Begun(Of(i))'
  BY DEF BucketKept
<1> HIDE DEF A, B
<1>5. ASSUME NEW d \in Durations, NEW f \in BOOLEAN, Complete(w, d, f)
      PROVE  BucketKept(i)'
  <2>1. /\ Apart(w) /\ buckets'[i] = buckets[i] /\ w \notin A
        /\ w \in B <=> bucketIndex(d) = i
    BY <1>5, Begins DEF A, B, figures, histogram
  <2>2. Begun(Of(i))' = Begun(Of(i)) + In(w, B)
    <3>1. Begun(Of(i))' = Begun(Of(i)) + Of(i)[d]
      BY <1>5, BegunMore, Weights DEF Complete
    <3>2. Of(i)[d] = In(w, B)
      BY <2>1 DEF Of, In
    <3> QED
      BY <3>1, <3>2
  <2>3. In(w, A) = 0 /\ In(w, B) \in Nat
    BY <2>1 DEF In
  <2>4. /\ Begun(Of(i))' \in Nat
        /\ buckets'[i] + In(w, B) + Begun(Of(i))
             = buckets[i] + In(w, A) + Begun(Of(i))'
    BY <1>3, <2>1, <2>2, <2>3
  <2>5. buckets'[i] + Cardinality(B) = Begun(Of(i))'
    BY <1>1, <1>2, <1>3, <1>4, <2>1, <2>4, Balance
  <2> QED
    BY <1>4, <2>5
<1>6. CASE Tallies(w)
  <2>1. /\ Apart(w) /\ w \notin B
        /\ w \in A <=> bucketIndex(took[w]) = i
    BY <1>6 DEF A, B, Tallies, Goes
  <2>2. buckets'[i] = buckets[i] + In(w, A)
    BY <1>3, <1>6, <2>1 DEF Tallies, In, Recording
  <2>3. Begun(Of(i))' = Begun(Of(i)) /\ In(w, A) \in Nat /\ In(w, B) = 0
    BY <1>6, <2>1, BegunSame DEF Tallies, Goes, In
  <2>4. /\ Begun(Of(i))' \in Nat
        /\ buckets'[i] + In(w, B) + Begun(Of(i))
             = buckets[i] + In(w, A) + Begun(Of(i))'
    BY <1>3, <2>1, <2>2, <2>3
  <2>5. buckets'[i] + Cardinality(B) = Begun(Of(i))'
    BY <1>1, <1>2, <1>3, <1>4, <2>1, <2>4, Balance
  <2> QED
    BY <1>4, <2>5
<1>7. CASE Reads(w) \/ Adds(w) \/ Counts(w) \/ Fails(w) \/ Lags(w)
  <2>1. /\ Apart(w) /\ UNCHANGED history /\ buckets' = buckets
        /\ w \in A <=> w \in B
    BY <1>7 DEF A, B, Reads, Adds, Counts, Fails, Lags, Goes, IfError, IfSlow
  <2>2. A = B
    BY <1>1, <1>2, <2>1
  <2> QED
    BY <1>4, <2>1, <2>2, BegunSame
<1> QED
  BY <1>5, <1>6, <1>7, WorkerSteps

(* The buckets together and the recordings not yet in one make up the queries. *)
LEMMA BucketsKeep ==
  ASSUME Recording, Recording', BucketsKept, NEW w \in Workers, Worker(w)
  PROVE  BucketsKept'
<1> DEFINE A == ToBucket
           B == ToBucket'
           x == Total(buckets, Indices)
           y == Total(buckets', Indices)
<1> USE DEF ToBucket, Pending
<1>1. A \in SUBSET Workers /\ B \in SUBSET Workers
  OBVIOUS
<1>2. ASSUME Apart(w) PROVE \A v \in Workers \ {w} : v \in A <=> v \in B
  BY <1>2 DEF Apart
<1>3. IsFiniteSet(Indices)
  BY FS_Interval, MetricsAssumption DEF MetricsAssumption, Indices
<1>4. Begun(Ones) \in Nat /\ x \in Nat /\ y \in Nat
  <2>1. \A i \in Indices : buckets[i] \in Nat /\ buckets'[i] \in Nat
    BY DEF Recording
  <2> QED
    BY <1>3, <2>1, TotalNat, BegunNat, Weights
<1>5. /\ x + Cardinality(A) = Begun(Ones)
      /\ BucketsKept' <=> y + Cardinality(B) = Begun(Ones)'
  BY DEF BucketsKept, Indices
<1> HIDE DEF A, B, x, y
<1>6. ASSUME NEW d \in Durations, NEW f \in BOOLEAN, Complete(w, d, f)
      PROVE  BucketsKept'
  <2>1. Apart(w) /\ buckets' = buckets /\ w \notin A /\ w \in B
    BY <1>6, Begins DEF A, B, figures, histogram
  <2>2. Begun(Ones)' = Begun(Ones) + 1 /\ y = x
    BY <1>6, <2>1, BegunMore, Weights DEF Complete, Ones, x, y
  <2>3. /\ Begun(Ones)' \in Nat
        /\ y + In(w, B) + Begun(Ones) = x + In(w, A) + Begun(Ones)'
    BY <1>4, <2>1, <2>2 DEF In
  <2>4. y + Cardinality(B) = Begun(Ones)'
    BY <1>1, <1>2, <1>4, <1>5, <2>1, <2>3, Balance
  <2> QED
    BY <1>5, <2>4
<1>7. CASE Tallies(w)
  <2>1. Apart(w) /\ w \in A /\ w \notin B
    BY <1>7 DEF A, B, Tallies, Goes
  <2>2. y = x + 1
    <3> DEFINE k == bucketIndex(took[w])
    <3>1. k \in Indices
      BY OneBucket DEF Recording
    <3>2. buckets' = [buckets EXCEPT ![k] = @ + 1]
      BY <1>7 DEF Tallies
    <3> HIDE DEF k
    <3>3. /\ \A j \in Indices : buckets[j] \in Int
          /\ buckets'[k] = buckets[k] + 1
          /\ \A j \in Indices \ {k} : buckets'[j] = buckets[j]
      BY <3>1, <3>2 DEF Recording
    <3>4. 1 \in Int
      OBVIOUS
    <3>5. PICK f, g : f = buckets /\ g = buckets'
      OBVIOUS
    <3>6. Total(g, Indices) = Total(f, Indices) + 1
      BY <1>3, <3>1, <3>3, <3>4, <3>5, TotalBump
    <3> QED
      BY <3>5, <3>6 DEF x, y
  <2>3. Begun(Ones)' = Begun(Ones)
    BY <1>7, BegunSame DEF Tallies, Goes
  <2>4. /\ Begun(Ones)' \in Nat
        /\ y + In(w, B) + Begun(Ones) = x + In(w, A) + Begun(Ones)'
    BY <1>4, <2>1, <2>2, <2>3 DEF In
  <2>5. y + Cardinality(B) = Begun(Ones)'
    BY <1>1, <1>2, <1>4, <1>5, <2>1, <2>4, Balance
  <2> QED
    BY <1>5, <2>5
<1>8. CASE Reads(w) \/ Adds(w) \/ Counts(w) \/ Fails(w) \/ Lags(w)
  <2>1. /\ Apart(w) /\ UNCHANGED history /\ buckets' = buckets
        /\ w \in A <=> w \in B
    BY <1>8 DEF A, B, Reads, Adds, Counts, Fails, Lags, Goes, IfError, IfSlow
  <2>2. A = B
    BY <1>1, <1>2, <2>1
  <2>3. y = x
    BY <2>1 DEF x, y
  <2> QED
    BY <1>5, <2>1, <2>2, <2>3, BegunSame
<1> QED
  BY <1>6, <1>7, <1>8, WorkerSteps

(* The sum: what is added is added to the sum as it stands.                *)
LEMMA SumKeeps ==
  ASSUME Recording, Recording', SumKept, NEW w \in Workers, Worker(w)
  PROVE  SumKept'
<1> DEFINE A == ToSum
           B == ToSum'
           x == Total(took, A)
           y == Total(took', B)
<1> USE DEF ToSum, Pending
<1>1. A \in SUBSET Workers /\ B \in SUBSET Workers
  OBVIOUS
<1>2. /\ Begun(Lengths) \in Nat /\ sum \in Nat /\ sum' \in Nat
      /\ \A v \in Workers : took[v] \in Nat /\ took'[v] \in Nat
  BY BegunNat, Weights DEF Recording
<1>3. ASSUME Apart(w)
      PROVE  /\ x \in Nat /\ y \in Nat
             /\ y + (IF w \in A THEN took[w] ELSE 0)
                  = x + (IF w \in B THEN took'[w] ELSE 0)
  <2>1. \A v \in Workers \ {w} : (v \in A <=> v \in B) /\ took'[v] = took[v]
    BY <1>3 DEF Apart
  <2> HIDE DEF A, B
  <2>2. PICK f, g : f = took /\ g = took'
    OBVIOUS
  <2>3. /\ \A v \in Workers : f[v] \in Nat /\ g[v] \in Nat
        /\ \A v \in Workers \ {w} : (v \in A <=> v \in B) /\ g[v] = f[v]
    BY <1>2, <2>1, <2>2
  <2>4. /\ Total(f, A) \in Nat /\ Total(g, B) \in Nat
        /\ Total(g, B) + (IF w \in A THEN f[w] ELSE 0)
             = Total(f, A) + (IF w \in B THEN g[w] ELSE 0)
    BY <1>1, <2>3, TotalMove
  <2> QED
    BY <2>2, <2>4
<1>4. SumKept' <=> sum' + y = Begun(Lengths)'
  BY DEF SumKept
<1> HIDE DEF x, y
<1>5. ASSUME NEW d \in Durations, NEW f \in BOOLEAN, Complete(w, d, f)
      PROVE  SumKept'
  <2>1. Apart(w) /\ sum' = sum /\ w \notin A /\ w \in B /\ took'[w] = d
    BY <1>5, Begins DEF figures, histogram
  <2>2. Begun(Lengths)' = Begun(Lengths) + d
    BY <1>5, BegunMore, Weights DEF Complete, Lengths
  <2>3. y = x + d /\ x \in Nat /\ d \in Nat
    BY <1>2, <1>3, <2>1
  <2> QED
    BY <1>2, <1>4, <2>1, <2>2, <2>3 DEF SumKept, x
<1>6. CASE Adds(w)
  <2>1. Apart(w) /\ sum' = sum + took[w] /\ w \in A /\ w \notin B
    BY <1>6 DEF Adds, Goes
  <2>2. x = y + took[w] /\ y \in Nat /\ took[w] \in Nat
    BY <1>2, <1>3, <2>1
  <2>3. Begun(Lengths)' = Begun(Lengths)
    BY <1>6, BegunSame DEF Adds, Goes
  <2> QED
    BY <1>2, <1>4, <2>1, <2>2, <2>3 DEF SumKept, x
<1>7. CASE Tallies(w) \/ Reads(w) \/ Counts(w) \/ Fails(w) \/ Lags(w)
  <2>1. Apart(w) /\ UNCHANGED history /\ sum' = sum /\ took'[w] = took[w]
    BY <1>7 DEF Tallies, Reads, Counts, Fails, Lags, Goes
  <2>2. w \in A <=> w \in B
    BY <1>7 DEF Tallies, Reads, Counts, Fails, Lags, Goes, IfError, IfSlow
  <2>3. y = x
    BY <1>2, <1>3, <2>1, <2>2
  <2> QED
    BY <1>4, <2>1, <2>3, BegunSame DEF SumKept, x
<1> QED
  BY <1>5, <1>6, <1>7, WorkerSteps

-----------------------------------------------------------------------------
(* The figures are complete at every moment. *)
FiguresInv ==
  /\ Recording
  /\ BucketsKept /\ SumKept /\ CountKept /\ SlowKept /\ ErrorsKept
  /\ \A i \in Indices : BucketKept(i)

(* At the start no query is begun and every figure is zero.                  *)
LEMMA FiguresInit == Init => FiguresInv
<1> SUFFICES ASSUME Init PROVE FiguresInv
  OBVIOUS
<1>1. Recording
  BY DEF Init, Recording, Pcs
<1>2. IsFiniteSet(Indices) /\ IsFiniteSet(Durations)
  BY FS_Interval, MetricsAssumption DEF MetricsAssumption, Indices
<1>3. \A n \in [Durations -> Nat] : Begun(n) = 0
  <2> SUFFICES ASSUME NEW n \in [Durations -> Nat] PROVE Begun(n) = 0
    OBVIOUS
  <2> DEFINE b == [d \in Durations |-> n[d] * served[d]]
  <2>1. \A k \in Nat : k * 0 = 0
    OBVIOUS
  <2>2. \A d \in Durations : n[d] \in Nat /\ served[d] = 0
    BY DEF Init
  <2>3. \A d \in Durations : b[d] = 0
    BY <2>1, <2>2
  <2> HIDE DEF b
  <2> QED
    BY <1>2, <2>3, TotalZero DEF Begun, b
<1>4. Total(buckets, Indices) = 0
  BY <1>2, TotalZero DEF Init
<1>5. /\ ToBucket = {} /\ ToSum = {} /\ ToCount = {}
      /\ ToSlow = {} /\ ToError = {}
      /\ \A i : ToBucketOf(i) = {}
  BY DEF Init, ToBucket, ToSum, ToCount, ToSlow, ToError, ToBucketOf, Pending
<1>6. Cardinality({}) = 0 /\ Total(took, {}) = 0
  BY FS_EmptySet, TotalEmpty
<1>7. /\ sum = 0 /\ count = 0 /\ slow = 0 /\ errors = 0 /\ wrong = 0
      /\ \A i \in Indices : buckets[i] = 0
  BY DEF Init
<1>8. /\ Begun(Ones) = 0 /\ Begun(Lengths) = 0 /\ Begun(Late) = 0
      /\ \A i : Begun(Of(i)) = 0
  BY <1>3, Weights
<1>9. BucketsKept      BY <1>4, <1>5, <1>6, <1>8 DEF BucketsKept
<1>10. SumKept         BY <1>5, <1>6, <1>7, <1>8 DEF SumKept
<1>11. CountKept       BY <1>5, <1>6, <1>7, <1>8 DEF CountKept
<1>12. SlowKept        BY <1>5, <1>6, <1>7, <1>8 DEF SlowKept
<1>13. ErrorsKept      BY <1>5, <1>6, <1>7 DEF ErrorsKept
<1>14. \A i \in Indices : BucketKept(i)
  BY <1>5, <1>6, <1>7, <1>8 DEF BucketKept
<1> QED
  BY <1>1, <1>9, <1>10, <1>11, <1>12, <1>13, <1>14 DEF FiguresInv

(* Every figure and what is on its way to it make up the queries that were   *)
(* begun, in every reachable state of the registry.                          *)
THEOREM FiguresInvariant == Spec => []FiguresInv
<1>1. FiguresInv /\ [Next]_vars => FiguresInv'
  <2> SUFFICES ASSUME FiguresInv, [Next]_vars PROVE FiguresInv'
    OBVIOUS
  <2>1. ASSUME NEW w \in Workers, Worker(w) PROVE FiguresInv'
    <3>1. Recording /\ Recording'
      BY <2>1, RecordingKept DEF FiguresInv
    <3>2. BucketsKept' /\ SumKept' /\ CountKept' /\ SlowKept' /\ ErrorsKept'
      BY <2>1, <3>1, BucketsKeep, SumKeeps, CountKeeps, SlowKeeps, ErrorsKeep
         DEF FiguresInv
    <3>3. \A i \in Indices : BucketKept(i)'
      BY <2>1, <3>1, BucketKeeps DEF FiguresInv
    <3>4. Indices' = Indices
      BY DEF Indices
    <3> QED
      BY <3>1, <3>2, <3>3, <3>4 DEF FiguresInv
  <2>2. CASE UNCHANGED <<figures, workers>>
    BY <2>2 DEF FiguresInv, Recording, BucketsKept, BucketKept, SumKept,
         CountKept, SlowKept, ErrorsKept, ToBucket, ToBucketOf, ToSum, ToCount, ToSlow,
         ToError, Pending, Begun, figures, histogram, workers, history, Indices
  <2> QED
    BY <2>1, <2>2 DEF Next, Scrape, ReadLine, vars
<1> QED
  BY FiguresInit, <1>1, PTL DEF Spec

(* Nothing is lost: whatever the workers do between each other's atomic    *)
(* operations, each figure is what the recordings begun amount to but for  *)
(* the workers that have not come to it yet.                               *)
THEOREM MetricsNothingLost == Spec => []NothingLost
<1>1. FiguresInv => NothingLost
  BY DEF FiguresInv, NothingLost, BucketsKept, SumKept, CountKept, SlowKept,
         ErrorsKept, ToBucket, ToSum, ToCount, ToSlow, ToError,
         Ones, Lengths, Late
<1> QED
  BY <1>1, FiguresInvariant, PTL

-----------------------------------------------------------------------------
(* A page never shows more than there is, nor less than the page before;   *)
(* when nothing was recorded since it was begun, the lines read so far are *)
(* what there is.                                                          *)
PagesInv ==
  /\ line \in 0 .. CountLine
  /\ page \in [Lines -> Nat] /\ last \in [Lines -> Nat]
  /\ \A i \in Lines : last[i] <= page[i] /\ page[i] <= Value(i)
  /\ quiet =>
       /\ \A w \in Workers : pc[w] = "idle"
       /\ \A i \in Lines : (line = 0 \/ i < line) => page[i] = Value(i)

(* What each line stands for. *)
LinesStand ==
  /\ SlowLine \in Lines /\ ErrorLine \in Lines
  /\ SumLine \in Lines /\ CountLine \in Lines
  /\ Value(SlowLine) = slow /\ Value(ErrorLine) = errors
  /\ Value(SumLine) = sum /\ Value(CountLine) = count
  /\ \A i \in Indices : i + 2 \in Lines /\ Value(i + 2) = buckets[i]
  /\ \A j \in Lines : \/ j \in {SlowLine, ErrorLine, SumLine, CountLine}
                      \/ \E i \in Indices : j = i + 2

(* The lines of the Prometheus page and the figure each one shows.           *)
LEMMA Values == LinesStand
<1> DEFINE n == Len(Bounds)
<1>1. n \in Nat
  BY MetricsAssumption DEF MetricsAssumption
<1> USE <1>1 DEF SlowLine, ErrorLine, SumLine, CountLine, Lines, Indices
<1> HIDE DEF n
<1>2. /\ SlowLine \in Lines /\ ErrorLine \in Lines
      /\ SumLine \in Lines /\ CountLine \in Lines
  BY DEF n
<1>3. Value(SlowLine) = slow        BY DEF Value, n
<1>4. Value(ErrorLine) = errors     BY DEF Value, n
<1>5. Value(SumLine) = sum          BY DEF Value, n
<1>6. Value(CountLine) = count      BY DEF Value, n
<1>7. ASSUME NEW i \in Indices
      PROVE  i + 2 \in Lines /\ Value(i + 2) = buckets[i]
  <2>1. i \in 1 .. n + 1
    BY DEF n
  <2>2. /\ (i + 2) - 2 = i /\ i + 2 # 1 /\ i + 2 # 2
        /\ i + 2 # n + 4 /\ i + 2 # n + 5
    BY <2>1
  <2>3. Value(i + 2) = buckets[(i + 2) - 2]
    BY <2>2 DEF Value, n
  <2> QED
    BY <2>1, <2>2, <2>3 DEF n
<1>8. ASSUME NEW j \in Lines
      PROVE  \/ j \in {SlowLine, ErrorLine, SumLine, CountLine}
             \/ \E i \in Indices : j = i + 2
  <2>1. j \in 1 .. n + 5
    BY DEF n
  <2>2. CASE j \in 3 .. n + 3
    <3>1. j - 2 \in 1 .. n + 1 /\ j = (j - 2) + 2
      BY <2>2
    <3> QED
      BY <3>1 DEF n
  <2>3. CASE j \in {1, 2, n + 4, n + 5}
    BY <2>3 DEF n
  <2> QED
    BY <2>1, <2>2, <2>3
<1> QED
  BY <1>2, <1>3, <1>4, <1>5, <1>6, <1>7, <1>8 DEF LinesStand

(* The same of the state after a step.                                       *)
LEMMA ValuesNext == LinesStand'
BY Values, PTL

(* The figures never fall. *)
LEMMA ValuesGrow ==
  ASSUME Recording, Recording', NEW w \in Workers, Worker(w), NEW i \in Lines
  PROVE  Value(i) \in Nat /\ Value(i)' \in Nat /\ Value(i) <= Value(i)'
<1>1. /\ sum <= sum' /\ count <= count' /\ slow <= slow' /\ errors <= errors'
      /\ \A j \in Indices : buckets[j] <= buckets'[j]
  <2>1. CASE \E d \in Durations, f \in BOOLEAN : Complete(w, d, f)
    BY <2>1 DEF Complete, figures, histogram, Recording
  <2>2. CASE Tallies(w)
    BY <2>2 DEF Tallies, Recording
  <2>3. CASE Reads(w) \/ Adds(w) \/ Counts(w) \/ Fails(w) \/ Lags(w)
    BY <2>3 DEF Reads, Adds, Counts, Fails, Lags, Recording
  <2> QED
    BY <2>1, <2>2, <2>3, WorkerSteps
<1>2. CASE i \in {SlowLine, ErrorLine, SumLine, CountLine}
  <2>1. /\ Value(SlowLine)' = slow' /\ Value(ErrorLine)' = errors'
        /\ Value(SumLine)' = sum' /\ Value(CountLine)' = count'
    BY ValuesNext DEF LinesStand
  <2> QED
    BY <1>1, <1>2, <2>1, Values DEF LinesStand, Recording
<1>3. ASSUME NEW j \in Indices, i = j + 2
      PROVE  Value(i) \in Nat /\ Value(i)' \in Nat /\ Value(i) <= Value(i)'
  <2>1. Value(i) = buckets[j] /\ Value(i)' = buckets'[j]
    BY <1>3, Values, ValuesNext DEF LinesStand, Indices
  <2> QED
    BY <1>1, <2>1 DEF Recording
<1> QED
  BY <1>2, <1>3, Values DEF LinesStand

(* No line of a page is ahead of its figure or behind the page before, in    *)
(* every reachable state of the registry.                                    *)
THEOREM PagesInvariant == Spec => []PagesInv
<1>1. Init => PagesInv
  <2> SUFFICES ASSUME Init PROVE PagesInv
    OBVIOUS
  <2>1. \A i \in Lines : Value(i) = 0
    BY Values DEF LinesStand, Init
  <2>2. CountLine \in Nat
    BY MetricsAssumption DEF MetricsAssumption, CountLine
  <2> QED
    BY <2>1, <2>2 DEF Init, PagesInv
<1>2. FiguresInv /\ FiguresInv' /\ PagesInv /\ [Next]_vars => PagesInv'
  <2> SUFFICES ASSUME FiguresInv, FiguresInv', PagesInv, [Next]_vars
               PROVE  PagesInv'
    OBVIOUS
  <2>1. CountLine \in Nat /\ Lines = 1 .. CountLine
    BY MetricsAssumption DEF MetricsAssumption, CountLine, Lines
  <2>2. ASSUME UNCHANGED figures
        PROVE  \A i \in Lines : Value(i)' = Value(i)
    BY <2>2 DEF figures, histogram, Value
  <2>3. \A i \in Lines : Value(i) \in Nat
    BY Values DEF LinesStand, FiguresInv, Recording
  <2>4. ASSUME NEW w \in Workers, Worker(w) PROVE PagesInv'
    <3>1. quiet' = FALSE /\ UNCHANGED scraper
      BY <2>4 DEF Worker, Complete, IncBucket, LoadSum, SwapSum, IncCount,
                  RecordError, IncSlow, Step
    <3>2. \A i \in Lines : /\ Value(i) \in Nat /\ Value(i)' \in Nat
                           /\ Value(i) <= Value(i)'
      BY <2>4, ValuesGrow DEF FiguresInv
    <3>3. \A i \in Lines : last'[i] <= page'[i] /\ page'[i] <= Value(i)'
      BY <3>1, <3>2 DEF PagesInv, scraper
    <3> QED
      BY <3>1, <3>3 DEF PagesInv, scraper
  <2>5. CASE Scrape
    <3>1. /\ line' = 1 /\ last' = page /\ page' = page
          /\ quiet' = \A w \in Workers : pc[w] = "idle"
          /\ pc' = pc /\ UNCHANGED figures
      BY <2>5 DEF Scrape, workers
    <3>2. 1 \in 0 .. CountLine
      BY MetricsAssumption DEF MetricsAssumption, CountLine
    <3>3. \A i \in Lines : last'[i] <= page'[i] /\ page'[i] <= Value(i)'
      BY <2>2, <3>1 DEF PagesInv
    <3>4. \A i \in Lines : ~(line' = 0 \/ i < line')
      BY <2>1, <3>1
    <3>5. quiet' => \A w \in Workers : pc'[w] = "idle"
      BY <3>1
    <3>6. last' \in [Lines -> Nat] /\ page' \in [Lines -> Nat]
      BY <3>1 DEF PagesInv
    <3> QED
      BY <3>1, <3>2, <3>3, <3>4, <3>5, <3>6 DEF PagesInv
  <2>6. CASE ReadLine
    <3>1. /\ line \in Lines
          /\ page' = [page EXCEPT ![line] = Value(line)]
          /\ line' = IF line = CountLine THEN 0 ELSE line + 1
          /\ UNCHANGED <<pc, last, quiet>> /\ UNCHANGED figures
      BY <2>1, <2>6 DEF ReadLine, Current, workers, PagesInv
    <3>2. line' \in 0 .. CountLine
      BY <2>1, <3>1
    <3>3. /\ page'[line] = Value(line)
          /\ \A i \in Lines \ {line} : page'[i] = page[i]
          /\ page' \in [Lines -> Nat]
      BY <2>3, <3>1 DEF PagesInv
    <3>4. \A i \in Lines : last[i] <= page[i] /\ page[i] <= Value(i)
      BY DEF PagesInv
    <3>5. \A i \in Lines : last[i] \in Nat /\ page[i] \in Nat
      BY DEF PagesInv
    <3>6. \A i \in Lines : last[i] <= page'[i] /\ page'[i] <= Value(i)
      <4>1. last[line] <= Value(line) /\ Value(line) <= Value(line)
        BY <2>3, <3>1, <3>4, <3>5
      <4> QED
        BY <3>1, <3>3, <3>4, <4>1
    <3>7. ASSUME quiet
          PROVE  \A i \in Lines : (line' = 0 \/ i < line') => page'[i] = Value(i)
      <4> SUFFICES ASSUME NEW i \in Lines, line' = 0 \/ i < line', i # line
                   PROVE  page'[i] = Value(i)
        BY <3>3
      <4>1. i < line
        BY <2>1, <3>1
      <4> QED
        BY <3>3, <3>7, <4>1 DEF PagesInv
    <3> QED
      BY <2>2, <3>1, <3>2, <3>3, <3>6, <3>7 DEF PagesInv
  <2>7. CASE UNCHANGED vars
    <3>1. UNCHANGED <<scraper, quiet, pc>> /\ UNCHANGED figures
      BY <2>7 DEF vars, workers
    <3> QED
      BY <2>2, <3>1 DEF PagesInv, scraper
  <2> QED
    BY <2>4, <2>5, <2>6, <2>7 DEF Next
<1> QED
  BY <1>1, <1>2, FiguresInvariant, PTL DEF Spec

(* No figure of a page is below the one of the page before.                *)
THEOREM MetricsPagesGrow == Spec => []PagesGrow
<1>1. PagesInv => PagesGrow
  BY DEF PagesInv, PagesGrow
<1> QED
  BY <1>1, PagesInvariant, PTL

(* The sum and the counters of a page written while nothing is recorded    *)
(* are exact: nobody is at a recording, so no figure misses any.           *)
THEOREM MetricsQuietPageExact == Spec => []QuietPageExact
<1>1. FiguresInv /\ PagesInv => QuietPageExact
  <2> SUFFICES ASSUME FiguresInv, PagesInv, line = 0, quiet
               PROVE  /\ page[SumLine] = Begun(Lengths)
                      /\ page[CountLine] = Begun(Ones)
                      /\ page[ErrorLine] = wrong
                      /\ page[SlowLine] = Begun(Late)
    BY DEF QuietPageExact, Lengths, Ones, Late
  <2>1. \A i \in Lines : page[i] = Value(i)
    BY DEF PagesInv
  <2>2. \A w \in Workers : pc[w] = "idle"
    BY DEF PagesInv
  <2>3. ToSum = {} /\ ToCount = {} /\ ToSlow = {} /\ ToError = {}
    BY <2>2 DEF ToSum, ToCount, ToSlow, ToError, Pending
  <2>4. Cardinality({}) = 0 /\ Total(took, {}) = 0
    BY FS_EmptySet, TotalEmpty
  <2>5. sum = Begun(Lengths)
    BY <2>3, <2>4 DEF FiguresInv, SumKept, Recording
  <2>6. count = Begun(Ones)
    BY <2>3, <2>4 DEF FiguresInv, CountKept, Recording
  <2>7. slow = Begun(Late)
    BY <2>3, <2>4 DEF FiguresInv, SlowKept, Recording
  <2>8. errors = wrong
    BY <2>3, <2>4 DEF FiguresInv, ErrorsKept, Recording
  <2> QED
    BY <2>1, <2>5, <2>6, <2>7, <2>8, Values DEF LinesStand
<1> QED
  BY <1>1, FiguresInvariant, PagesInvariant, PTL
=============================================================================
