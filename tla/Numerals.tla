------------------------------ MODULE Numerals ------------------------------
(***************************************************************************)
(* Powers, and the number that a sequence of digits stands for, the most   *)
(* significant first.                                                      *)
(***************************************************************************)
EXTENDS Integers, Sequences

Power(b, n) == LET p[i \in 0 .. n] == IF i = 0 THEN 1 ELSE b * p[i - 1]
               IN  p[n]

Number(ds, b) == LET v[i \in 0 .. Len(ds)] ==
                       IF i = 0 THEN 0 ELSE v[i - 1] * b + ds[i]
                 IN  v[Len(ds)]
=============================================================================
