---------------------------- MODULE MonitorAgent ----------------------------
(***************************************************************************)
(* The life cycle of the monitor (src/monitor/MonitorServer.cpp): start(), *)
(* stop() and the collector thread that samples the query rate.            *)
(*                                                                         *)
(* One thread calls start() and stop(), as often as it likes; every access *)
(* to _running and every hand-over of the collector or of the HTTP server  *)
(* is a step of its own.  Queries are counted by statement type by the     *)
(* threads that serve them; the collector adds the types up one after the  *)
(* other while they go on counting.                                        *)
(***************************************************************************)
EXTENDS Integers, Sums

CONSTANTS
  Enabled,   (* the values of cfg.enabled                                  *)
  NumTypes,  (* the statement types are 1 .. NumTypes                      *)
  MaxQueries (* bound on the queries of a type                             *)

ASSUME AgentAssumption ==
  /\ Enabled \subseteq BOOLEAN
  /\ NumTypes \in Nat \ {0} /\ MaxQueries \in Nat

VARIABLES
  running,    (* _running                                                  *)
  http,       (* the HTTP server is up                                     *)
  thread,     (* _collector: "none" when not joinable, else where it is    *)
  queries,    (* db_queries_total, by statement type                       *)
  next,       (* the type the collector reads next                         *)
  sum,        (* what it has added up                                      *)
  lastQueries,(* the sum that began the window                             *)
  counted,    (* history: the queries of all windows sampled so far        *)
  pc, up,     (* where the caller stands; whether it starts an HTTP server *)
  crashed     (* std::terminate has been called                            *)

sampling == <<next, sum, lastQueries, counted>>
vars     == <<running, http, thread, queries, sampling, pc, up, crashed>>

Types   == 1 .. NumTypes
Alive   == {"first", "loop", "sleep", "add"}
Pcs     == {"idle", "config", "publish", "spawn", "drop", "join", "teardown"}

TypeOK ==
  /\ running \in BOOLEAN /\ http \in BOOLEAN /\ up \in BOOLEAN
  /\ crashed \in BOOLEAN
  /\ thread \in Alive \cup {"none", "exited"}
  /\ queries \in [Types -> 0 .. MaxQueries]
  /\ next \in 1 .. NumTypes + 1
  /\ {sum, lastQueries, counted} \subseteq 0 .. NumTypes * MaxQueries
  /\ pc \in Pcs

Init ==
  /\ running = FALSE /\ http = FALSE /\ thread = "none"
  /\ queries = [y \in Types |-> 0]
  /\ next = 1 /\ sum = 0 /\ lastQueries = 0 /\ counted = 0
  /\ pc = "idle" /\ up = FALSE /\ crashed = FALSE

At(p)   == pc = p /\ ~crashed
Goto(p) == pc' = p

-----------------------------------------------------------------------------
(* start(): a running monitor is left alone. *)

Start ==
  /\ At("idle") /\ ~running
  /\ \E b \in Enabled : up' = b
  /\ Goto("config")
  /\ UNCHANGED <<running, http, thread, queries, sampling, crashed>>

(* The configuration, the slow log and the HTTP server, which may fail to  *)
(* start.                                                                  *)
Config ==
  /\ At("config")
  /\ IF up THEN http' \in BOOLEAN ELSE UNCHANGED http
  /\ Goto("publish")
  /\ UNCHANGED <<running, thread, queries, sampling, up, crashed>>

Publish ==
  /\ At("publish")
  /\ running' = TRUE
  /\ Goto("spawn")
  /\ UNCHANGED <<http, thread, queries, sampling, up, crashed>>

(* Assigning a new thread to a joinable std::thread terminates.            *)
Spawn ==
  /\ At("spawn")
  /\ crashed' = (thread # "none")
  /\ thread' = "first" /\ next' = 1 /\ sum' = 0
  /\ Goto("idle")
  /\ UNCHANGED <<running, http, queries, lastQueries, counted, up>>

-----------------------------------------------------------------------------
(* stop(): without a running monitor it only tears the HTTP server down.   *)

AfterStop == IF running THEN "join" ELSE "drop"

Stop ==
  /\ At("idle")
  /\ running' = FALSE
  /\ Goto(AfterStop)
  /\ UNCHANGED <<http, thread, queries, sampling, up, crashed>>

Join ==
  /\ At("join") /\ thread \in {"none", "exited"}
  /\ thread' = "none"
  /\ Goto("teardown")
  /\ UNCHANGED <<running, http, queries, sampling, up, crashed>>

KeepHttp == UNCHANGED http                                       \* mutant
DropHttp == http' = FALSE

Teardown ==
  /\ At("teardown") \/ At("drop")
  /\ DropHttp
  /\ Goto("idle")
  /\ UNCHANGED <<running, thread, queries, sampling, up, crashed>>

-----------------------------------------------------------------------------
(* collectLoop() *)

Collector(p) == thread = p /\ ~crashed
Loop(p) == thread' = p /\ UNCHANGED <<running, http, queries, pc, up, crashed>>

(* Registry::familySum, a type at a time. *)
Add ==
  /\ next <= NumTypes
  /\ sum' = sum + queries[next] /\ next' = next + 1
  /\ UNCHANGED <<lastQueries, counted>>
  /\ Loop(thread)

FirstSum ==
  /\ Collector("first")
  /\ \/ Add
     \/ /\ next > NumTypes
        /\ lastQueries' = sum /\ UNCHANGED <<next, sum, counted>>
        /\ Loop("loop")

Always == TRUE                                                   \* mutant
GoesOn == running

(* The condition of the outer loop. *)
Check ==
  /\ Collector("loop")
  /\ Loop(IF GoesOn THEN "sleep" ELSE "exited")
  /\ UNCHANGED sampling

(* After a sleep slice the loop is left, or the interval is over and the   *)
(* counters are added up; a slice that is not the last leaves all alone.   *)
Wake ==
  /\ Collector("sleep")
  /\ IF GoesOn THEN Loop("add") /\ next' = 1 /\ sum' = 0
                ELSE Loop("exited") /\ UNCHANGED <<next, sum>>
  /\ UNCHANGED <<lastQueries, counted>>

SameBase == lastQueries                                          \* mutant
NewBase  == sum

Sample ==
  /\ Collector("add")
  /\ \/ Add
     \/ /\ next > NumTypes
        /\ counted' = counted +
             (IF sum >= lastQueries THEN sum - lastQueries ELSE 0)
        /\ lastQueries' = NewBase
        /\ UNCHANGED <<next, sum>>
        /\ Loop("loop")

-----------------------------------------------------------------------------
(* A query of type y is served. *)
Query(y) ==
  /\ ~crashed /\ queries[y] < MaxQueries
  /\ queries' = [queries EXCEPT ![y] = @ + 1]
  /\ UNCHANGED <<running, http, thread, sampling, pc, up, crashed>>

Caller      == Config \/ Publish \/ Spawn \/ Join \/ Teardown
CollectLoop == FirstSum \/ Check \/ Wake \/ Sample

Next ==
  \/ Start \/ Stop \/ Caller
  \/ CollectLoop
  \/ \E y \in Types : Query(y)

Spec == Init /\ [][Next]_vars

(* Both threads are scheduled, and an interval ends.  Nothing obliges the  *)
(* caller to start or stop the monitor.                                    *)
FairSpec == Spec /\ WF_vars(CollectLoop) /\ WF_vars(Caller)

-----------------------------------------------------------------------------
(* A restart never meets a collector that nobody joined: start() would     *)
(* otherwise assign to a joinable std::thread and end the process.         *)
NoTerminate == ~crashed

(* What a returned call leaves: after stop() no collector and no HTTP      *)
(* server, after start() a collector that is running.                      *)
StoppedOrRunning ==
  pc = "idle" => IF running THEN thread \in Alive
                            ELSE thread = "none" /\ ~http

(* No query is in two windows, although the counters move while they are   *)
(* added up and every start() begins with a new base: the windows together *)
(* never hold more queries than were served.                               *)
WindowsDisjoint == counted <= Total(queries, Types)

(* stop() returns: the collector notices _running and can be joined.       *)
StopReturns == pc = "join" ~> pc = "idle"
=============================================================================
