---------------------------- MODULE Monitor_proofs ----------------------------
(***************************************************************************)
(* The monitor, for any configurations, requests, capacities, page sizes   *)
(* and numbers of queries: a restart never meets a collector nobody joined,*)
(* start() and stop() leave what they promise, no query is in two windows, *)
(* a page of the slow log is never torn by a restart, and a statement is   *)
(* counted under what it says it is.                                       *)
(***************************************************************************)
EXTENDS Monitor, Sums_proofs

-----------------------------------------------------------------------------
(* The life cycle. *)

(* Where the caller stands tells whether the monitor runs and what became  *)
(* of its collector.                                                       *)
Stopped == ~running /\ thread = "none"

LifeCycle ==
  /\ pc = "idle"    => IF running THEN thread \in Alive
                                  ELSE thread = "none" /\ ~http
  /\ pc \in {"config", "publish", "drop", "teardown"} => Stopped
  /\ pc = "spawn"   => running /\ thread = "none"
  /\ pc = "join"    => ~running /\ thread \in Alive \cup {"exited"}

AgentInv ==
  /\ running \in BOOLEAN /\ http \in BOOLEAN /\ pc \in Pcs
  /\ ~crashed
  /\ LifeCycle

(* Before the first start() nothing runs. *)
LEMMA AgentInit == Init => AgentInv
BY DEF Init, AgentInv, LifeCycle, Pcs

(* A step of the thread that calls start() and stop() keeps it.            *)
LEMMA AgentCaller ==
  ASSUME AgentInv, Start \/ Stop \/ Caller PROVE AgentInv'
<1> USE DEF AgentInv, LifeCycle, Stopped, Pcs, Alive, At, Goto
<1>1. CASE Start     BY <1>1 DEF Start
<1>2. CASE Config    BY <1>2 DEF Config
<1>3. CASE Publish   BY <1>3 DEF Publish
<1>4. CASE Spawn     BY <1>4 DEF Spawn
<1>5. CASE Stop      BY <1>5 DEF Stop, AfterStop
<1>6. CASE Join      BY <1>6 DEF Join
<1>7. CASE Teardown  BY <1>7 DEF Teardown, DropHttp
<1> QED
  BY <1>1, <1>2, <1>3, <1>4, <1>5, <1>6, <1>7 DEF Caller

(* A step of the collector keeps it: it leaves only when it has read       *)
(* _running as false, that is, under a stop() that waits for it.           *)
LEMMA AgentCollector ==
  ASSUME AgentInv, CollectLoop PROVE AgentInv'
<1> USE DEF AgentInv, LifeCycle, Stopped, Pcs, Alive, Collector, Loop, GoesOn
<1>1. CASE FirstSum  BY <1>1 DEF FirstSum, Add
<1>2. CASE Check     BY <1>2 DEF Check
<1>3. CASE Wake      BY <1>3 DEF Wake
<1>4. CASE Sample    BY <1>4 DEF Sample, Add
<1> QED
  BY <1>1, <1>2, <1>3, <1>4 DEF CollectLoop

(* The invariant holds throughout. *)
THEOREM AgentInvariant == Spec => []AgentInv
<1>1. AgentInv /\ [Next]_vars => AgentInv'
  <2> SUFFICES ASSUME AgentInv, [Next]_vars PROVE AgentInv'
    OBVIOUS
  <2>1. CASE Start \/ Stop \/ Caller  BY <2>1, AgentCaller
  <2>2. CASE CollectLoop              BY <2>2, AgentCollector
  <2>3. ASSUME NEW y \in Types, Query(y) PROVE AgentInv'
    BY <2>3 DEF Query, AgentInv, LifeCycle, Stopped
  <2>4. CASE UNCHANGED vars
    BY <2>4 DEF vars, AgentInv, LifeCycle, Stopped
  <2> QED
    BY <2>1, <2>2, <2>3, <2>4 DEF Next
<1> QED
  BY AgentInit, <1>1, PTL DEF Spec

(* std::terminate is never called: std::thread is assigned to only when    *)
(* stop() has joined the collector before.                                 *)
THEOREM AgentNoTerminate == Spec => []NoTerminate
<1>1. AgentInv => NoTerminate
  BY DEF AgentInv, NoTerminate
<1> QED
  BY <1>1, AgentInvariant, PTL

(* After stop() neither a collector nor the HTTP server is left, after     *)
(* start() the collector runs.                                             *)
THEOREM AgentStoppedOrRunning == Spec => []StoppedOrRunning
<1>1. AgentInv => StoppedOrRunning
  BY DEF AgentInv, LifeCycle, StoppedOrRunning
<1> QED
  BY <1>1, AgentInvariant, PTL

-----------------------------------------------------------------------------
(* The windows. *)

(* What the collector has added up is at most what those counters hold now,*)
(* and with the counters it has yet to read at least what the window began *)
(* with; the windows before that were disjoint and end where it begins.    *)
Ahead  == next .. NumTypes
Behind == 1 .. next - 1

WindowInv ==
  /\ queries \in [Types -> Nat]
  /\ next \in 1 .. NumTypes + 1
  /\ sum \in Nat /\ lastQueries \in Nat /\ counted \in Nat
  /\ counted <= lastQueries
  /\ lastQueries <= Total(queries, Types)
  /\ lastQueries <= sum + Total(queries, Ahead)
  /\ sum <= Total(queries, Behind)

(* The counters of a range of types. *)
LEMMA RangeTotal ==
  ASSUME NEW q \in [Types -> Nat], NEW a \in Int, NEW b \in Int,
         a .. b \subseteq Types
  PROVE  IsFiniteSet(a .. b) /\ Total(q, a .. b) \in Nat
<1>1. IsFiniteSet(a .. b)
  BY FS_Interval
<1>2. \A y \in a .. b : q[y] \in Nat
  OBVIOUS
<1> QED
  BY <1>1, <1>2, TotalNat

(* Reading one more counter moves it from those ahead to those behind.     *)
LEMMA WindowAdd ==
  ASSUME WindowInv, Add PROVE WindowInv'
<1> USE AgentAssumption DEF AgentAssumption
<1> DEFINE y == next
           n == queries[y]
<1>1. /\ y \in Types /\ y \in Int /\ n \in Nat /\ next' = y + 1
      /\ sum' = sum + n /\ UNCHANGED <<queries, lastQueries, counted>>
      /\ queries \in [Types -> Nat]
      /\ sum \in Nat /\ lastQueries \in Nat
  BY DEF Add, Loop, WindowInv, Types
<1> HIDE DEF y, n
<1>2. /\ Ahead = y .. NumTypes /\ Behind = 1 .. y - 1
      /\ Ahead' = y + 1 .. NumTypes /\ Behind' = 1 .. y
  BY <1>1 DEF Ahead, Behind, y
<1>3. /\ y .. NumTypes \subseteq Types /\ y + 1 .. NumTypes \subseteq Types
      /\ 1 .. y \subseteq Types /\ 1 .. y - 1 \subseteq Types
  BY <1>1 DEF Types
<1>4. /\ IsFiniteSet(y .. NumTypes) /\ Total(queries, y .. NumTypes) \in Nat
      /\ Total(queries, y + 1 .. NumTypes) \in Nat
      /\ IsFiniteSet(1 .. y) /\ Total(queries, 1 .. y) \in Nat
      /\ Total(queries, 1 .. y - 1) \in Nat
  <2>1. NumTypes \in Int /\ y + 1 \in Int /\ y - 1 \in Int
    BY <1>1
  <2> QED
    BY <1>1, <1>3, <2>1, RangeTotal
<1>5. Total(queries, y .. NumTypes) = n + Total(queries, y + 1 .. NumTypes)
  <2>1. y \in y .. NumTypes /\ (y .. NumTypes) \ {y} = y + 1 .. NumTypes
    BY <1>1 DEF Types
  <2>2. \A x \in y .. NumTypes : queries[x] \in Int
    BY <1>1, <1>3
  <2>3. Total(queries, y .. NumTypes)
          = queries[y] + Total(queries, (y .. NumTypes) \ {y})
    <3> DEFINE R == y .. NumTypes
    <3>1. IsFiniteSet(R) /\ y \in R /\ \A x \in R : queries[x] \in Int
      BY <1>4, <2>1, <2>2
    <3> HIDE DEF R
    <3>2. Total(queries, R) = queries[y] + Total(queries, R \ {y})
      BY <3>1, TotalRemove
    <3> QED
      BY <3>2 DEF R
  <2> QED
    BY <2>1, <2>3 DEF n
<1>6. Total(queries, 1 .. y) = n + Total(queries, 1 .. y - 1)
  <2>1. y \in 1 .. y /\ (1 .. y) \ {y} = 1 .. y - 1
    BY <1>1 DEF Types
  <2>2. \A x \in 1 .. y : queries[x] \in Int
    BY <1>1, <1>3
  <2>3. Total(queries, 1 .. y) = queries[y] + Total(queries, (1 .. y) \ {y})
    <3> DEFINE R == 1 .. y
    <3>1. IsFiniteSet(R) /\ y \in R /\ \A x \in R : queries[x] \in Int
      BY <1>4, <2>1, <2>2
    <3> HIDE DEF R
    <3>2. Total(queries, R) = queries[y] + Total(queries, R \ {y})
      BY <3>1, TotalRemove
    <3> QED
      BY <3>2 DEF R
  <2> QED
    BY <2>1, <2>3 DEF n
<1>7. lastQueries <= sum' + Total(queries, Ahead')
  BY <1>1, <1>2, <1>4, <1>5 DEF WindowInv
<1>8. sum' <= Total(queries, Behind')
  BY <1>1, <1>2, <1>4, <1>6 DEF WindowInv
<1>9. queries' = queries
  BY <1>1
<1>10. /\ Total(queries, Ahead') = Total(queries, Ahead)'
       /\ Total(queries, Behind') = Total(queries, Behind)'
  BY <1>9
<1>11. Total(queries, Types)' = Total(queries, Types)
  BY <1>9
<1> QED
  BY <1>1, <1>7, <1>8, <1>10, <1>11 DEF WindowInv, Types

(* A new round of reading begins with nothing read. *)
LEMMA WindowRestart ==
  ASSUME WindowInv, next' = 1, sum' = 0,
         UNCHANGED <<queries, lastQueries, counted>>
  PROVE  WindowInv'
<1>1. Ahead' = Types /\ Behind' = {} /\ 1 \in 1 .. NumTypes + 1
  BY AgentAssumption DEF AgentAssumption, Ahead, Behind, Types
<1>2. Total(queries, Types)' = Total(queries, Types)
  OBVIOUS
<1>3. Total(queries, Types) \in Nat
  BY RangeTotal, AgentAssumption DEF AgentAssumption, Types, WindowInv
<1>4. /\ Total(queries, Ahead)' = Total(queries, Types)
      /\ Total(queries, Behind)' = 0
  BY <1>1, TotalEmpty
<1> QED
  BY <1>1, <1>2, <1>3, <1>4 DEF WindowInv, Types

(* All counters are read: nothing is ahead, and the sum is at least what   *)
(* the window began with and at most what the counters hold.               *)
LEMMA WindowRead ==
  ASSUME WindowInv, next > NumTypes
  PROVE  lastQueries <= sum /\ sum <= Total(queries, Types) /\ Ahead = {}
<1>1. next = NumTypes + 1
  BY AgentAssumption DEF AgentAssumption, WindowInv
<1>2. Ahead = {} /\ Behind = Types
  BY <1>1, AgentAssumption DEF AgentAssumption, Ahead, Behind, Types
<1> QED
  BY <1>2, TotalEmpty DEF WindowInv

(* The next window begins with what was read. *)
LEMMA WindowNext ==
  ASSUME WindowInv, next > NumTypes, lastQueries' = sum,
         counted' \in Nat, counted' <= sum, UNCHANGED <<queries, next, sum>>
  PROVE  WindowInv'
<1>1. /\ Total(queries, Types)' = Total(queries, Types)
      /\ Total(queries, Ahead)' = Total(queries, Ahead)
      /\ Total(queries, Behind)' = Total(queries, Behind)
  BY DEF Ahead, Behind, Types
<1>2. Total(queries, Ahead) = 0
  BY WindowRead, TotalEmpty
<1> QED
  BY <1>1, <1>2, WindowRead DEF WindowInv, Types

(* A counter that is behind or ahead moves up as it likes.                 *)
LEMMA WindowQuery ==
  ASSUME WindowInv, NEW y \in Types, Query(y) PROVE WindowInv'
<1> USE DEF WindowInv
<1>1. UNCHANGED <<next, sum, lastQueries, counted>>
  BY DEF Query, sampling
<1>2. queries' = [queries EXCEPT ![y] = queries[y] + 1]
  BY DEF Query
<1>3. /\ queries' \in [Types -> Nat]
      /\ \A x \in Types : queries[x] \in Int /\ queries'[x] \in Int
                          /\ queries[x] <= queries'[x]
  BY <1>2
<1> DEFINE Grows(R) == /\ Total(queries, R) \in Nat /\ Total(queries', R) \in Nat
                       /\ Total(queries, R) <= Total(queries', R)
<1>4. ASSUME NEW a \in Int, NEW b \in Int, a .. b \subseteq Types
      PROVE  Grows(a .. b)
  BY <1>3, <1>4, RangeTotal, TotalLeq
<1>5. /\ Types = 1 .. NumTypes /\ NumTypes \in Int /\ next \in Int
      /\ next .. NumTypes \subseteq Types /\ 1 .. next - 1 \subseteq Types
      /\ next - 1 \in Int
  BY AgentAssumption DEF AgentAssumption, Types
<1> HIDE DEF Grows
<1>6. Grows(Types)   BY <1>4, <1>5
<1>7. Grows(Ahead)   BY <1>4, <1>5 DEF Ahead
<1>8. Grows(Behind)  BY <1>4, <1>5 DEF Behind
<1> USE DEF Grows
<1>9. /\ Total(queries, Types)' = Total(queries', Types)
      /\ Total(queries, Ahead)' = Total(queries', Ahead)
      /\ Total(queries, Behind)' = Total(queries', Behind)
  BY <1>1 DEF Ahead, Behind, Types
<1> QED
  BY <1>1, <1>3, <1>6, <1>7, <1>8, <1>9 DEF Types

(* It holds throughout: the collector moves through the types, and what    *)
(* else there is leaves its sums alone.                                    *)
THEOREM WindowInvariant == Spec => []WindowInv
<1>1. Init => WindowInv
  <2> SUFFICES ASSUME Init PROVE WindowInv
    OBVIOUS
  <2>1. /\ queries \in [Types -> Nat] /\ next = 1 /\ sum = 0
        /\ lastQueries = 0 /\ counted = 0 /\ \A y \in Types : queries[y] = 0
    BY DEF Init
  <2>2. IsFiniteSet(Types) /\ Ahead = Types /\ Behind = {}
    BY <2>1, FS_Interval, AgentAssumption DEF AgentAssumption, Ahead, Behind, Types
  <2>3. Total(queries, Types) = 0 /\ Total(queries, Behind) = 0
    BY <2>1, <2>2, TotalZero, TotalEmpty
  <2>4. 1 \in 1 .. NumTypes + 1
    BY AgentAssumption DEF AgentAssumption
  <2> QED
    BY <2>1, <2>2, <2>3, <2>4 DEF WindowInv
<1>2. WindowInv /\ [Next]_vars => WindowInv'
  <2> SUFFICES ASSUME WindowInv, [Next]_vars PROVE WindowInv'
    OBVIOUS
  <2>1. ASSUME UNCHANGED <<queries, sampling>> PROVE WindowInv'
    BY <2>1 DEF sampling, WindowInv, Ahead, Behind, Types
  <2>2. CASE Start \/ Stop \/ Config \/ Publish \/ Join \/ Teardown
    BY <2>1, <2>2 DEF Start, Stop, Config, Publish, Join, Teardown
  <2>3. CASE Spawn
    BY <2>3, WindowRestart DEF Spawn
  <2>4. CASE FirstSum
    <3>1. CASE Add
      BY <3>1, WindowAdd
    <3>2. CASE /\ next > NumTypes /\ lastQueries' = sum
               /\ UNCHANGED <<next, sum, counted, queries>>
      <4>1. counted <= sum /\ counted \in Nat
        BY <3>2, WindowRead DEF WindowInv
      <4> QED
        BY <3>2, <4>1, WindowNext
    <3> QED
      BY <2>4, <3>1, <3>2 DEF FirstSum, Loop
  <2>5. CASE Check
    BY <2>1, <2>5 DEF Check, Loop
  <2>6. CASE Wake
    <3>1. CASE next' = 1 /\ sum' = 0 /\ UNCHANGED <<queries, lastQueries, counted>>
      BY <3>1, WindowRestart
    <3>2. CASE UNCHANGED <<queries, sampling>>
      BY <2>1, <3>2
    <3> QED
      BY <2>6, <3>1, <3>2 DEF Wake, Loop, sampling
  <2>7. CASE Sample
    <3>1. CASE Add
      BY <3>1, WindowAdd
    <3>2. CASE /\ next > NumTypes /\ lastQueries' = NewBase
               /\ counted' = counted +
                    (IF sum >= lastQueries THEN sum - lastQueries ELSE 0)
               /\ UNCHANGED <<next, sum, queries>>
      <4>1. lastQueries <= sum /\ sum \in Nat /\ lastQueries \in Nat
            /\ counted \in Nat /\ counted <= lastQueries
        BY <3>2, WindowRead DEF WindowInv
      <4>2. counted' = counted + (sum - lastQueries)
        BY <3>2, <4>1
      <4>3. counted' \in Nat /\ counted' <= sum /\ lastQueries' = sum
        BY <3>2, <4>1, <4>2 DEF NewBase
      <4> QED
        BY <3>2, <4>3, WindowNext
    <3> QED
      BY <2>7, <3>1, <3>2 DEF Sample, Loop
  <2>8. ASSUME NEW y \in Types, Query(y) PROVE WindowInv'
    BY <2>8, WindowQuery
  <2>9. CASE UNCHANGED vars
    BY <2>1, <2>9 DEF vars
  <2> QED
    BY <2>2, <2>3, <2>4, <2>5, <2>6, <2>7, <2>8, <2>9
       DEF Next, Caller, CollectLoop
<1> QED
  BY <1>1, <1>2, PTL DEF Spec

-----------------------------------------------------------------------------
(* The ring of the slow-query log, for every capacity and set of entries.  *)

(* A remainder below twice the modulus. *)
LEMMA Remainder ==
  ASSUME NEW c \in Nat \ {0}, NEW x \in 0 .. 2 * c - 1
  PROVE  x % c = IF x < c THEN x ELSE x - c
<1>1. CASE x < c
  BY <1>1
<1>2. CASE x >= c
  <2>1. x = c * 1 + (x - c) /\ x - c \in 0 .. c - 1
    BY <1>2
  <2> QED
    BY <1>2, <2>1
<1> QED
  BY <1>1, <1>2

(* The slot of the i-th newest entry, without a remainder. *)
LEMMA SlotAt ==
  ASSUME NEW c \in Nat \ {0}, NEW h \in 0 .. c - 1, NEW i \in 0 .. c - 1
  PROVE  (h + c - 1 - i) % c = IF i < h THEN h - 1 - i ELSE h + c - 1 - i
<1>1. h + c - 1 - i \in 0 .. 2 * c - 1
  OBVIOUS
<1> DEFINE x == h + c - 1 - i
<1>2. x % c = IF x < c THEN x ELSE x - c
  <2> HIDE DEF x
  <2>1. x \in 0 .. 2 * c - 1
    BY <1>1 DEF x
  <2> QED
    BY <2>1, Remainder
<1> QED
  BY <1>2

(* The head after an entry has been written. *)
LEMMA HeadAt ==
  ASSUME NEW c \in Nat \ {0}, NEW h \in 0 .. c - 1
  PROVE  (h + 1) % c = IF h + 1 = c THEN 0 ELSE h + 1
<1> DEFINE x == h + 1
<1>1. x % c = IF x < c THEN x ELSE x - c
  <2>1. x \in 0 .. 2 * c - 1
    OBVIOUS
  <2> HIDE DEF x
  <2> QED
    BY <2>1, Remainder
<1> QED
  BY <1>1

(* Type correctness, with the head inside the buffer and no blank slot     *)
(* among the entries counted.                                              *)
THEOREM SlowLogType ==
  ASSUME Log!SlowLogAssumption
  PROVE  Log!Spec => []Log!TypeOK
<1> USE DEF Log!SlowLogAssumption
<1>1. Log!Init => Log!TypeOK
  BY DEF Log!Init, Log!TypeOK
<1>2. Log!TypeOK /\ [Log!Next]_(Log!vars) => Log!TypeOK'
  <2> SUFFICES ASSUME Log!TypeOK, [Log!Next]_(Log!vars) PROVE Log!TypeOK'
    OBVIOUS
  <2>1. ASSUME NEW n \in Capacities, Log!SetCapacity(n) PROVE Log!TypeOK'
    BY <2>1 DEF Log!SetCapacity, Log!TypeOK
  <2>2. ASSUME NEW e \in {Logged(r) : r \in Requests}, Log!Add(e)
        PROVE  Log!TypeOK'
    <3>1. cap # 0 /\ head' = (IF head + 1 = cap THEN 0 ELSE head + 1)
      BY <2>2, HeadAt DEF Log!Add, Log!TypeOK, Log!Wrap
    <3> QED
      BY <2>2, <3>1 DEF Log!Add, Log!TypeOK
  <2>3. CASE UNCHANGED Log!vars
    BY <2>3 DEF Log!vars, Log!TypeOK
  <2> QED
    BY <2>1, <2>2, <2>3 DEF Log!Next
<1> QED
  BY <1>1, <1>2, PTL DEF Log!Spec

(* After an entry is written it is the newest, and every other one that is *)
(* still counted has moved up by one.                                      *)
LEMMA AddShifts ==
  ASSUME Log!TypeOK, Log!TypeOK', NEW e \in {Logged(r) : r \in Requests},
         Log!Add(e)
  PROVE  /\ buf'[Log!Slot(0)'] = e
         /\ \A i \in 1 .. cap - 1 : buf'[Log!Slot(i)'] = buf[Log!Slot(i - 1)]
<1>1. /\ cap' = cap /\ cap \in Nat \ {0} /\ head \in 0 .. cap - 1
      /\ head' = (IF head + 1 = cap THEN 0 ELSE head + 1)
  BY HeadAt DEF Log!Add, Log!TypeOK, Log!Wrap
<1>2. ASSUME NEW i \in 0 .. cap - 1
      PROVE  Log!Slot(i)' = IF i < head' THEN head' - 1 - i
                            ELSE head' + cap - 1 - i
  BY <1>1, SlotAt DEF Log!Slot
<1>3. Log!Slot(0)' = head
  BY <1>1, <1>2
<1>4. ASSUME NEW i \in 1 .. cap - 1
      PROVE  /\ Log!Slot(i)' = Log!Slot(i - 1)
             /\ Log!Slot(i - 1) \in 0 .. cap - 1 /\ Log!Slot(i - 1) # head
  <2>1. i \in 0 .. cap - 1 /\ i - 1 \in 0 .. cap - 1
    BY <1>1
  <2>2. Log!Slot(i - 1) = IF i - 1 < head THEN head - 1 - (i - 1)
                      ELSE head + cap - 1 - (i - 1)
    BY <1>1, <2>1, SlotAt DEF Log!Slot
  <2> QED
    BY <1>1, <1>2, <2>1, <2>2
<1> QED
  BY <1>1, <1>3, <1>4 DEF Log!Add, Log!TypeOK

(* The ring buffer implements the list of the latest entries: every write  *)
(* puts its entry in front and drops at most the oldest.                   *)
THEOREM SlowLogRefines ==
  ASSUME Log!SlowLogAssumption
  PROVE  Log!Spec => Log!ImplementsRecent
<1>1. Log!Init => Log!Recent!Init
  BY DEF Log!Init, Log!Recent!Init, Log!Snapshot
<1>2. Log!TypeOK /\ Log!TypeOK' /\ [Log!Next]_(Log!vars)
        => [Log!Recent!Next]_<<Log!Snapshot(count), cap>>
  <2> SUFFICES ASSUME Log!TypeOK, Log!TypeOK', [Log!Next]_(Log!vars)
               PROVE  [Log!Recent!Next]_<<Log!Snapshot(count), cap>>
    OBVIOUS
  <2>1. ASSUME NEW n \in Capacities, Log!SetCapacity(n)
        PROVE  Log!Recent!Configure
    <3>1. cap' \in Nat \ {0} /\ count' = 0
      BY <2>1 DEF Log!SetCapacity, Log!SlowLogAssumption
    <3> QED
      BY <3>1 DEF Log!Recent!Configure, Log!Snapshot
  <2>2. ASSUME NEW e \in {Logged(r) : r \in Requests}, Log!Add(e)
        PROVE  Log!Recent!Record(e)
    <3>1. /\ cap \in Nat \ {0} /\ cap' = cap /\ count \in 0 .. cap
          /\ count' = IF count < cap THEN count + 1 ELSE cap
      BY <2>2 DEF Log!Add, Log!TypeOK
    <3>2. Len(Log!Snapshot(count)) = count
      BY <3>1 DEF Log!Snapshot
    <3>3. Log!Snapshot(count)' = [i \in 1 .. count' |-> buf'[Log!Slot(i - 1)']]
      BY <3>1 DEF Log!Snapshot
    <3>4. ASSUME NEW i \in 1 .. count'
          PROVE  buf'[Log!Slot(i - 1)'] =
                   IF i = 1 THEN e ELSE Log!Snapshot(count)[i - 1]
      <4>1. CASE i = 1
        BY <2>2, <4>1, AddShifts
      <4>2. CASE i # 1
        <5>1. i - 1 \in 1 .. cap - 1 /\ i - 1 \in 1 .. count
          BY <3>1, <4>2
        <5>2. buf'[Log!Slot(i - 1)'] = buf[Log!Slot((i - 1) - 1)]
          BY <2>2, <5>1, AddShifts
        <5>3. Log!Snapshot(count)[i - 1] = buf[Log!Slot((i - 1) - 1)]
          BY <3>1, <5>1 DEF Log!Snapshot
        <5> QED
          BY <4>2, <5>2, <5>3
      <4> QED
        BY <4>1, <4>2
    <3>5. Log!Snapshot(count)' =
            [i \in 1 .. count' |->
               IF i = 1 THEN e ELSE Log!Snapshot(count)[i - 1]]
      BY <3>3, <3>4
    <3> QED
      BY <3>1, <3>2, <3>5 DEF Log!Recent!Record, Log!Recent!Latest
  <2>3. CASE UNCHANGED Log!vars
    BY <2>3 DEF Log!vars, Log!Snapshot, Log!Slot
  <2> QED
    BY <2>1, <2>2, <2>3 DEF Log!Next, Log!Recent!Next
<1> QED
  BY <1>1, <1>2, SlowLogType, PTL
     DEF Log!Spec, Log!ImplementsRecent, Log!Recent!Spec

-----------------------------------------------------------------------------
(* The whole. *)

(* The types requests are counted under are types of the agent.            *)
LEMMA Classified ==
  ASSUME NEW r \in Requests, NEW m PROVE classifyRequest(r, m) \in Types
<1>1. sniffSql(r) \in 1 .. 8
  BY DEF sniffSql, Select, Insert, Ddl, Show, Use, Fetch, Meta, Other
<1>2. classifyRequest(r, m) \in 1 .. 8
  BY <1>1 DEF classifyRequest, Select, Insert, Ddl, Show, Use, Fetch, Meta, Other
<1> QED
  BY <1>2, MonitorAssumption DEF MonitorAssumption, Types, Count

(* Every step of the whole is a step of the agent, or leaves it alone.     *)
LEMMA AgentSteps == [MonitorNext]_all => [Next]_vars
<1> SUFFICES ASSUME [MonitorNext]_all PROVE [Next]_vars
  OBVIOUS
<1>1. CASE AgentStep
  BY <1>1 DEF AgentStep, Others, Next, Caller
<1>2. CASE Configure
  BY <1>2 DEF Configure, Next, Caller
<1>3. CASE Close \/ Ask \/ Answer
  BY <1>3 DEF Close, Ask, Answer, agent
<1>4. CASE Dismantle
  BY <1>4 DEF Dismantle, Next, Caller
<1>5. ASSUME NEW r \in Requests, Serve(r) PROVE [Next]_vars
  BY <1>5, Classified DEF Serve, Next, agent
<1>6. ASSUME NEW r \in Requests, Finish(r) PROVE [Next]_vars
  BY <1>6 DEF Finish, agent
<1>7. CASE UNCHANGED all
  BY <1>7 DEF all, agent
<1> QED
  BY <1>1, <1>2, <1>3, <1>4, <1>5, <1>6, <1>7 DEF MonitorNext

(* Every step of the whole is an operation of the log, or leaves it alone. *)
LEMMA LogSteps == [MonitorNext]_all => [Log!Next]_(Log!vars)
<1> SUFFICES ASSUME [MonitorNext]_all PROVE [Log!Next]_(Log!vars)
  OBVIOUS
<1>1. CASE UNCHANGED slowLog
  BY <1>1 DEF slowLog, Log!vars
<1>2. CASE Configure
  BY <1>2 DEF Configure, Log!Next
<1>3. ASSUME NEW r \in Requests, Log!Add(Logged(r)) PROVE Log!Next
  BY <1>3 DEF Log!Next
<1> QED
  BY <1>1, <1>2, <1>3
     DEF MonitorNext, all, AgentStep, Others, Close, Dismantle, Serve, Finish,
         Ask, Answer

(* The monitor never calls std::terminate, whatever requests and pages do  *)
(* beside it.                                                              *)
THEOREM MonitorNoTerminate == MonitorSpec => []NoTerminate
<1>1. MonitorSpec => Spec
  BY AgentSteps, PTL DEF MonitorSpec, MonitorInit, Spec
<1> QED
  BY <1>1, AgentNoTerminate, PTL

(* No query is in two windows of the collector, whatever is counted while  *)
(* it reads and however often the monitor is started anew.                 *)
THEOREM MonitorWindowsDisjoint == MonitorSpec => []WindowsDisjoint
<1>1. MonitorSpec => Spec
  BY AgentSteps, PTL DEF MonitorSpec, MonitorInit, Spec
<1>2. WindowInv => WindowsDisjoint
  <2> SUFFICES ASSUME WindowInv PROVE WindowsDisjoint
    OBVIOUS
  <2>1. Total(queries, Types) \in Nat
    BY RangeTotal, AgentAssumption DEF AgentAssumption, Types, WindowInv
  <2> QED
    BY <2>1 DEF WindowInv, WindowsDisjoint
<1> QED
  BY <1>1, <1>2, WindowInvariant, PTL

(* The slow log implements the list of the latest entries while it is      *)
(* configured, written and read by threads of its own.                     *)
THEOREM MonitorRefinesRecent == MonitorSpec => ImplementsRecent
<1>1. MonitorSpec => Log!Spec
  BY LogSteps, PTL DEF MonitorSpec, MonitorInit, Log!Spec
<1>2. Log!SlowLogAssumption
  BY MonitorAssumption DEF MonitorAssumption
<1> QED
  BY <1>1, <1>2, SlowLogRefines DEF ImplementsRecent

-----------------------------------------------------------------------------
(* While a servlet is about to fetch its page there is an HTTP server, so  *)
(* start() is not configuring, and the capacity it read is still that of   *)
(* the log.                                                                *)
PageInv ==
  /\ cap \in Nat /\ count \in 0 .. cap
  /\ pc = "config" => ~http
  /\ asked # Idle => http /\ (param = 0 => asked = cap)

MonitorInv == AgentInv /\ PageInv

(* The steps of the life cycle keep it: an HTTP server that is taken down  *)
(* has nothing left to answer, and one is gone when the log is configured. *)
LEMMA PageLifeCycle ==
  ASSUME MonitorInv, AgentStep \/ Configure \/ Dismantle
  PROVE  PageInv'
<1> USE DEF MonitorInv, PageInv, AgentInv, LifeCycle, At, Goto
<1>1. CASE AgentStep
  <2>1. UNCHANGED <<slowLog, servlet>>
    BY <1>1 DEF AgentStep, Others
  <2>2. CASE Start
    BY <2>1, <2>2 DEF Start, slowLog, servlet
  <2>3. CASE Stop
    BY <2>1, <2>3 DEF Stop, AfterStop, slowLog, servlet
  <2>4. CASE Publish \/ Spawn \/ Join
    BY <2>1, <2>4 DEF Publish, Spawn, Join, slowLog, servlet
  <2>5. CASE CollectLoop
    <3>1. UNCHANGED <<http, pc>>
      BY <2>5 DEF CollectLoop, FirstSum, Check, Wake, Sample, Add, Loop
    <3> QED
      BY <2>1, <3>1 DEF slowLog, servlet
  <2> QED
    BY <1>1, <2>2, <2>3, <2>4, <2>5 DEF AgentStep, Others
<1>2. CASE Configure
  <2>1. asked = Idle /\ asked' = Idle /\ pc' = "publish"
    BY <1>2 DEF Configure, Config, servlet
  <2>2. cap' \in Nat /\ count' = 0
    BY <1>2, MonitorAssumption
       DEF MonitorAssumption, Configure, Log!SetCapacity
  <2> QED
    BY <2>1, <2>2
<1>3. CASE Dismantle
  BY <1>3 DEF Dismantle, Teardown, slowLog
<1> QED
  BY <1>1, <1>2, <1>3

(* So do the requests and the servlet itself.                              *)
LEMMA PageServed ==
  ASSUME MonitorInv,
         Close \/ Ask \/ Answer \/ \E r \in Requests : Serve(r) \/ Finish(r)
  PROVE  PageInv'
<1> USE DEF MonitorInv, PageInv
<1>1. CASE Close
  BY <1>1 DEF Close, agent, vars, slowLog
<1>2. CASE Ask
  BY <1>2, MonitorAssumption
     DEF MonitorAssumption, Ask, Wanted, agent, vars, slowLog
<1>3. CASE Answer
  BY <1>3 DEF Answer, agent, vars, slowLog
<1>4. ASSUME NEW r \in Requests, Serve(r) PROVE PageInv'
  <2>1. UNCHANGED <<http, pc>>
    BY <1>4 DEF Serve, Query, agent, vars
  <2> QED
    BY <1>4, <2>1 DEF Serve, slowLog, servlet
<1>5. ASSUME NEW r \in Requests, Finish(r) PROVE PageInv'
  <2>1. cap' = cap /\ count' \in 0 .. cap
    BY <1>5 DEF Finish, Log!Add, slowLog
  <2> QED
    BY <1>5, <2>1 DEF Finish, agent, vars, servlet
<1> QED
  BY <1>1, <1>2, <1>3, <1>4, <1>5

(* The invariant of the whole: that of the agent, and that of its pages.   *)
THEOREM MonitorInvariant == MonitorSpec => []MonitorInv
<1>1. MonitorInit => PageInv
  BY DEF MonitorInit, Init, Log!Init, PageInv
<1>2. MonitorInv /\ [MonitorNext]_all => PageInv'
  <2> SUFFICES ASSUME MonitorInv, [MonitorNext]_all PROVE PageInv'
    OBVIOUS
  <2>1. CASE UNCHANGED all
    BY <2>1 DEF all, agent, vars, slowLog, servlet, MonitorInv, PageInv
  <2> QED
    BY <2>1, PageLifeCycle, PageServed DEF MonitorNext
<1>3. MonitorSpec => []AgentInv
  <2>1. MonitorSpec => Spec
    BY AgentSteps, PTL DEF MonitorSpec, MonitorInit, Spec
  <2> QED
    BY <2>1, AgentInvariant, PTL
<1>4. AgentInv /\ PageInv <=> MonitorInv
  BY DEF MonitorInv
<1> QED
  BY <1>1, <1>2, <1>3, <1>4, PTL DEF MonitorSpec

(* A page asked for without a number shows every entry of the log, because *)
(* no restart comes between reading the capacity and the entries.          *)
THEOREM MonitorPageWhole == MonitorSpec => PageWhole
<1>1. MonitorInv => (asked # Idle /\ asked' = Idle
                       => (param = 0 => Page = Log!Snapshot(count)))
  <2> SUFFICES ASSUME MonitorInv, asked # Idle, param = 0
               PROVE  Page = Log!Snapshot(count)
    OBVIOUS
  <2>1. asked = cap /\ cap \in Nat /\ count \in 0 .. cap
    BY DEF MonitorInv, PageInv
  <2>2. (IF count < cap THEN count ELSE cap) = count
    BY <2>1
  <2>3. (IF count < count THEN count ELSE count) = count
    OBVIOUS
  <2> QED
    BY <2>1, <2>2, <2>3 DEF Page, Log!Snapshot
<1> QED
  BY <1>1, MonitorInvariant, PTL DEF PageWhole

-----------------------------------------------------------------------------
(* What the tests of query() say of the verb: a row of the table sends a   *)
(* statement under the type that stands for what it says it is.            *)
LEMMA Rows ==
  ASSUME NEW i \in DOMAIN Rules
  PROVE  \/ Rules[i][1] = "SELECT" /\ Rules[i][3] = "QUERY"
         \/ Rules[i][1] = "INSERT" /\ Rules[i][3] = "SUBMIT"
         \/ Rules[i][1] \in {"SHOW", "DESCRIBE", "DESC"} /\ Rules[i][3] = "SHOW"
         \/ Rules[i][1] = "USE" /\ Rules[i][3] = "USE_DB"
         \/ /\ Rules[i][1] \in {"CREATE", "DROP", "ALTER", "GRANT", "REVOKE"}
            /\ Rules[i][3] \in DdlTypes
<1>1. DOMAIN Rules = 1 .. 22
  BY DEF Rules
<1>2. CASE i = 1      BY <1>2 DEF Rules
<1>3. CASE i = 2      BY <1>3 DEF Rules
<1>4. CASE i = 3      BY <1>4 DEF Rules
<1>5. CASE i = 4      BY <1>5 DEF Rules
<1>6. CASE i = 5      BY <1>6 DEF Rules
<1>7. CASE i = 6      BY <1>7 DEF Rules, DdlTypes
<1>8. CASE i = 7      BY <1>8 DEF Rules, DdlTypes
<1>9. CASE i = 8      BY <1>9 DEF Rules, DdlTypes
<1>10. CASE i = 9     BY <1>10 DEF Rules, DdlTypes
<1>11. CASE i = 10    BY <1>11 DEF Rules
<1>12. CASE i = 11    BY <1>12 DEF Rules, DdlTypes
<1>13. CASE i = 12    BY <1>13 DEF Rules, DdlTypes
<1>14. CASE i = 13    BY <1>14 DEF Rules, DdlTypes
<1>15. CASE i = 14    BY <1>15 DEF Rules, DdlTypes
<1>16. CASE i = 15    BY <1>16 DEF Rules, DdlTypes
<1>17. CASE i = 16    BY <1>17 DEF Rules, DdlTypes
<1>18. CASE i = 17    BY <1>18 DEF Rules, DdlTypes
<1>19. CASE i = 18    BY <1>19 DEF Rules, DdlTypes
<1>20. CASE i = 19    BY <1>20 DEF Rules, DdlTypes
<1>21. CASE i = 20    BY <1>21 DEF Rules, DdlTypes
<1>22. CASE i = 21    BY <1>22 DEF Rules, DdlTypes
<1>23. CASE i = 22    BY <1>23 DEF Rules, DdlTypes
<1> QED
  BY <1>1, <1>2, <1>3, <1>4, <1>5, <1>6, <1>7, <1>8, <1>9, <1>10, <1>11, <1>12,
     <1>13, <1>14, <1>15, <1>16, <1>17, <1>18, <1>19, <1>20, <1>21, <1>22, <1>23

(* The first test that a statement passes is one it passes.                *)
LEMMA FirstHit ==
  ASSUME NEW r, MsgType(r) # None
  PROVE  \E i \in DOMAIN Rules : Matches(i, r) /\ MsgType(r) = Rules[i][3]
<1> DEFINE hits  == {i \in DOMAIN Rules : Matches(i, r)}
           First(i) == \A j \in hits : i <= j
<1>1. hits # {} /\ MsgType(r) = Rules[CHOOSE i \in hits : First(i)][3]
  BY DEF MsgType
<1>2. hits \subseteq Nat
  BY DEF Rules
<1>3. \E i \in hits : \A j \in hits : ~(<<j, i>> \in OpToRel(<, Nat))
  BY <1>1, <1>2, NatLessThanWellFounded, WFMin, Zenon
<1>4. \E i \in hits : First(i)
  <2>1. PICK i \in hits : \A j \in hits : ~(<<j, i>> \in OpToRel(<, Nat))
    BY <1>3
  <2>2. \A j \in hits : ~(j < i)
    BY <1>2, <2>1 DEF OpToRel
  <2>3. First(i)
    BY <1>2, <2>2
  <2> QED
    BY <2>3
<1>5. (CHOOSE i \in hits : First(i)) \in hits
  BY <1>4, Zenon
<1> QED
  BY <1>1, <1>5

(* A statement that does not hide its verb is counted, and under what it   *)
(* says it is.                                                             *)
LEMMA CountedSays ==
  ASSUME NEW r, MsgType(r) # None, Sniffable(r)
  PROVE  /\ isCountedRequest(MsgType(r))
         /\ classifyRequest(r, MsgType(r)) = Says(r)
<1> SUFFICES ASSUME NEW m, m = MsgType(r)
             PROVE  isCountedRequest(m) /\ classifyRequest(r, m) = Says(r)
  OBVIOUS
<1>1. PICK i \in DOMAIN Rules : r.verb = Rules[i][1] /\ m = Rules[i][3]
  BY FirstHit DEF Matches
<1>2. CASE r.verb = "SELECT" /\ m = "QUERY"
  <2>1. Says(r) = Select           BY <1>2 DEF Says
  <2>2. sniffSql(r) = Select       BY <1>2 DEF sniffSql
  <2>3. classifyRequest(r, m) = sniffSql(r)
    BY <1>2 DEF classifyRequest, DdlTypes
  <2> QED
    BY <1>2, <2>1, <2>2, <2>3 DEF isCountedRequest
<1>3. CASE r.verb = "INSERT" /\ m = "SUBMIT"
  <2>1. Says(r) = Insert                BY <1>3 DEF Says
  <2>2. classifyRequest(r, m) = Insert  BY <1>3 DEF classifyRequest, DdlTypes
  <2> QED
    BY <1>3, <2>1, <2>2 DEF isCountedRequest
<1>4. CASE r.verb \in {"SHOW", "DESCRIBE", "DESC"} /\ m = "SHOW"
  <2>1. Says(r) = Show                BY <1>4 DEF Says
  <2>2. classifyRequest(r, m) = Show  BY <1>4 DEF classifyRequest, DdlTypes
  <2> QED
    BY <1>4, <2>1, <2>2 DEF isCountedRequest
<1>5. CASE r.verb = "USE" /\ m = "USE_DB"
  <2>1. Says(r) = Use                BY <1>5 DEF Says
  <2>2. classifyRequest(r, m) = Use  BY <1>5 DEF classifyRequest, DdlTypes
  <2> QED
    BY <1>5, <2>1, <2>2 DEF isCountedRequest
<1>6. CASE /\ r.verb \in {"CREATE", "DROP", "ALTER", "GRANT", "REVOKE"}
           /\ m \in DdlTypes
  <2>1. Says(r) = Ddl                BY <1>6 DEF Says
  <2>2. classifyRequest(r, m) = Ddl  BY <1>6 DEF classifyRequest, DdlTypes
  <2> QED
    BY <1>6, <2>1, <2>2 DEF isCountedRequest
<1> QED
  BY <1>1, <1>2, <1>3, <1>4, <1>5, <1>6, Rows

(* Every statement is counted under what it says it is, unless one hid its *)
(* verb: the two ways of classifying it agree, and nothing but the         *)
(* requests themselves touches the counters.                               *)
THEOREM MonitorCountedAsSent == MonitorSpec => []CountedAsSent
<1>1. MonitorInit => CountedAsSent
  BY DEF MonitorInit, Init, CountedAsSent
<1>2. CountedAsSent /\ [MonitorNext]_all => CountedAsSent'
  <2> SUFFICES ASSUME CountedAsSent, [MonitorNext]_all PROVE CountedAsSent'
    OBVIOUS
  <2>1. ASSUME UNCHANGED <<queries, sent, odd>> PROVE CountedAsSent'
    BY <2>1 DEF CountedAsSent
  <2>2. ASSUME AgentStep \/ Configure \/ Dismantle
        PROVE  UNCHANGED <<queries, sent, odd>>
    <3>1. UNCHANGED served
      BY <2>2 DEF AgentStep, Others, Configure, Dismantle
    <3>2. UNCHANGED queries
      BY <2>2 DEF AgentStep, Others, Configure, Dismantle, Start, Stop, Publish,
           Spawn, Join, CollectLoop, FirstSum, Check, Wake, Sample, Add, Loop,
           Config, Teardown
    <3> QED
      BY <3>1, <3>2 DEF served
  <2>3. ASSUME Close \/ Ask \/ Answer \/ UNCHANGED all
        PROVE  UNCHANGED <<queries, sent, odd>>
    BY <2>3 DEF Close, Ask, Answer, all, agent, vars, served
  <2>4. ASSUME NEW r \in Requests, Finish(r)
        PROVE  UNCHANGED <<queries, sent, odd>>
    BY <2>4 DEF Finish, agent, vars
  <2>5. ASSUME NEW r \in Requests, Serve(r) PROVE CountedAsSent'
    <3>1. CASE odd \/ ~Sniffable(r)
      BY <2>5, <3>1 DEF Serve, CountedAsSent
    <3>2. CASE ~odd /\ Sniffable(r)
      <4>1. queries = sent
        BY <3>2 DEF CountedAsSent
      <4>2. queries' = [queries EXCEPT ![Says(r)] = @ + 1]
        BY <2>5, <3>2, CountedSays DEF Serve, Query
      <4>3. sent' = [sent EXCEPT ![Says(r)] = @ + 1]
        BY <2>5 DEF Serve
      <4> QED
        BY <4>1, <4>2, <4>3 DEF CountedAsSent
    <3> QED
      BY <3>1, <3>2
  <2> QED
    BY <2>1, <2>2, <2>3, <2>4, <2>5 DEF MonitorNext
<1> QED
  BY <1>1, <1>2, PTL DEF MonitorSpec
===============================================================================
