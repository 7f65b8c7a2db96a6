------------------------------- MODULE SlowLog -------------------------------
(***************************************************************************)
(* The slow-query log of the monitor (src/monitor/SlowLog.h): a ring       *)
(* buffer that query threads append to and the /api/v1/slowlog endpoint    *)
(* reads.  Every operation is one critical section of _mu.                 *)
(***************************************************************************)
EXTENDS Integers, Sequences

CONSTANTS
  Entries,      (* slow queries                                            *)
  Capacities,   (* the arguments given to setCapacity                      *)
  Blank         (* SlowQueryEntry(), in a slot not written yet             *)

SlowLogAssumption == Capacities \subseteq Nat /\ Blank \notin Entries

VARIABLES buf, cap, head, count

vars == <<buf, cap, head, count>>

Init ==
  /\ buf = [i \in {} |-> Blank]
  /\ cap = 0 /\ head = 0 /\ count = 0

SetCapacity(n) ==
  /\ cap' = IF n = 0 THEN 1 ELSE n
  /\ buf' = [i \in 0 .. cap' - 1 |-> Blank]
  /\ head' = 0 /\ count' = 0

Wrap(h)   == (h + 1) % cap

Add(e) ==
  /\ cap # 0
  /\ buf' = [buf EXCEPT ![head] = e]
  /\ head' = Wrap(head)
  /\ count' = IF count < cap THEN count + 1 ELSE count
  /\ UNCHANGED cap

OldestFirst(i) == (head + i) % cap                               \* mutant
(* The slot of the i-th newest entry, i = 0 the newest.                    *)
Slot(i) == (head + cap - 1 - i) % cap

(* At most maxN entries, newest first. *)
Snapshot(maxN) ==
  [i \in 1 .. (IF count < maxN THEN count ELSE maxN) |-> buf[Slot(i - 1)]]

Next == \/ \E n \in Capacities : SetCapacity(n)
        \/ \E e \in Entries : Add(e)

Spec == Init /\ [][Next]_vars

-----------------------------------------------------------------------------
(* Type correctness: the head stays inside the buffer, which never holds   *)
(* more entries than slots, and only unwritten slots are blank.            *)
TypeOK ==
  /\ cap \in Nat /\ count \in 0 .. cap
  /\ head \in 0 .. (IF cap = 0 THEN 0 ELSE cap - 1)
  /\ buf \in [0 .. cap - 1 -> Entries \cup {Blank}]
  /\ count < cap => head = count
  /\ \A i \in 0 .. cap - 1 : i < count => buf[i] # Blank

(* The ring buffer is the list of the latest entries: snapshot() of all of *)
(* them shows that list, whatever has wrapped around or been overwritten.  *)
Recent == INSTANCE RecentLog WITH log <- Snapshot(count), capacity <- cap

ImplementsRecent == Recent!Spec

=============================================================================
