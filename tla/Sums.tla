-------------------------------- MODULE Sums --------------------------------
(***************************************************************************)
(* The sum of a function over a finite set, and of the first n of a list.  *)
(***************************************************************************)
EXTENDS Integers, FiniteSetsExt

Total(f, S) == MapThenSumSet(LAMBDA x : f[x], S)

Added(f, n) == LET sum[i \in 0 .. n] ==
                     IF i = 0 THEN 0 ELSE sum[i - 1] + f[i]
               IN  sum[n]
=============================================================================
