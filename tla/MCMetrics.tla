----------------------------- MODULE MCMetrics -----------------------------
(* Two workers and two queries over two buckets and +Inf.  Durations meet  *)
(* a bound exactly or pass them all; some are slow.                        *)
EXTENDS Metrics, TLC

MCBounds == <<1, 2>>

Alike == Permutations(Workers)
=============================================================================
