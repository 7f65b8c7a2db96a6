------------------------------ MODULE RecentLog ------------------------------
(***************************************************************************)
(* What the slow-query log promises (src/monitor/SlowLog.h): the latest    *)
(* entries, newest first, as many as its capacity, since it was configured.*)
(***************************************************************************)
EXTENDS Naturals, Sequences

CONSTANT Entries

VARIABLES log, capacity

Init == log = <<>> /\ capacity = 0

Configure ==
  /\ capacity' \in Nat \ {0}
  /\ log' = <<>>

Latest(n) == IF n < capacity THEN n + 1 ELSE capacity

Record(e) ==
  /\ capacity # 0
  /\ log' = [i \in 1 .. Latest(Len(log)) |-> IF i = 1 THEN e ELSE log[i - 1]]
  /\ UNCHANGED capacity

Next == Configure \/ \E e \in Entries : Record(e)

Spec == Init /\ [][Next]_<<log, capacity>>

=============================================================================
