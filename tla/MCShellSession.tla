--------------------------- MODULE MCShellSession ---------------------------
(* Instances of ShellSession for TLC: milliseconds and nanoseconds with a  *)
(* second of two and of four units, and a word of 32 values.  Datetimes    *)
(* on both sides of 1970, one in the second before, and one too late.      *)
EXTENDS ShellSession, TLC

MCPerSecond == "ms" :> 2 @@ "ns" :> 4

MCDatetimes == {<<-2, 3>>, <<-1, 2>>, <<1, 3>>, <<5, 1>>}

Symmetry == Permutations(DBs)
=============================================================================
