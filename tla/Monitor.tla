------------------------------- MODULE Monitor -------------------------------
(***************************************************************************)
(* The monitor as a whole: the life cycle and the collector of             *)
(* MonitorAgent, the ring buffer of SlowLog that start() configures, the   *)
(* requests the hooks count and log (RequestHooks), and the servlet that   *)
(* shows the log (src/monitor/MonitorServer.cpp).                          *)
(*                                                                         *)
(* The threads that serve requests know nothing of the monitor's life      *)
(* cycle: they count and log before, during and after it.                  *)
(***************************************************************************)
EXTENDS MonitorAgent, RequestHooks

CONSTANTS
  Requests,   (* the statements that are sent                              *)
  Capacities, (* the values of cfg.slowLogCapacity                         *)
  Params,     (* the values of the parameter n; 0 stands for none          *)
  Blank       (* an entry not written yet                                  *)

VARIABLES
  buf, cap, head, count, (* the slow log                                   *)
  working,  (* the requests being served                                   *)
  sent,     (* history: the statements sent, by what they say they are     *)
  odd,      (* history: one of them hid its verb from sniffSql             *)
  closing,  (* stop() is taking the HTTP server down                       *)
  asked,    (* how many entries a servlet is about to fetch, or Idle       *)
  param     (* the parameter it was given                                  *)

Idle == -1

slowLog == <<buf, cap, head, count>>
served  == <<working, sent, odd>>
servlet == <<closing, asked, param>>
agent   == vars
all     == <<agent, slowLog, served, servlet>>

Log == INSTANCE SlowLog WITH Entries <- {Logged(r) : r \in Requests}

ASSUME MonitorAssumption ==
  Capacities \subseteq Nat /\ Params \subseteq Nat /\ NumTypes = Count
  /\ Log!SlowLogAssumption

MonitorInit ==
  /\ Init /\ Log!Init
  /\ working = {} /\ sent = [y \in Types |-> 0] /\ odd = FALSE
  /\ closing = FALSE /\ asked = Idle /\ param = 0

(* start() configures the slow log before it makes an HTTP server.         *)
Configure ==
  /\ Config
  /\ \E n \in Capacities : Log!SetCapacity(n)
  /\ UNCHANGED <<served, servlet>>

(* A server that is being destroyed accepts nothing more, and its threads  *)
(* are joined once they have answered what they are at.                    *)
Close ==
  /\ pc \in {"teardown", "drop"} /\ ~crashed /\ ~closing
  /\ closing' = TRUE
  /\ UNCHANGED <<agent, slowLog, served, asked, param>>

Dismantle ==
  /\ closing /\ asked = Idle
  /\ Teardown
  /\ closing' = FALSE
  /\ UNCHANGED <<slowLog, served, asked, param>>

Others(A) == A /\ UNCHANGED <<slowLog, served, servlet>>

AgentStep == Others(Start \/ Stop \/ Publish \/ Spawn \/ Join \/ CollectLoop)

-----------------------------------------------------------------------------
(* A request arrives and is counted; once served it is logged if it was    *)
(* slow, whatever the threshold was when that was decided.                 *)

(* What a statement says it is. *)
Says(r) ==
  CASE r.verb = "SELECT"                     -> Select
    [] r.verb = "INSERT"                     -> Insert
    [] r.verb \in {"SHOW", "DESCRIBE", "DESC"} -> Show
    [] r.verb = "USE"                        -> Use
    [] OTHER                                 -> Ddl

Serve(r) ==
  /\ r \notin working /\ MsgType(r) # None
  /\ working' = working \cup {r}
  /\ IF isCountedRequest(MsgType(r))
     THEN Query(classifyRequest(r, MsgType(r)))
     ELSE ~crashed /\ UNCHANGED agent
  /\ sent' = [sent EXCEPT ![Says(r)] = @ + 1]
  /\ odd' = (odd \/ ~Sniffable(r))
  /\ UNCHANGED <<slowLog, servlet>>

Finish(r) ==
  /\ r \in working /\ ~crashed
  /\ working' = working \ {r}
  /\ \/ cap # 0 /\ Log!Add(Logged(r))
     \/ UNCHANGED slowLog
  /\ UNCHANGED <<agent, sent, odd, servlet>>

-----------------------------------------------------------------------------
(* SlowlogServlet::get(): the capacity and the entries are read under the  *)
(* mutex of the log, but one after the other.                              *)

Wanted(n) == IF n > 0 THEN n ELSE cap

Ask ==
  /\ http /\ ~closing /\ ~crashed /\ asked = Idle
  /\ \E n \in Params : param' = n /\ asked' = Wanted(n)
  /\ UNCHANGED <<agent, slowLog, served, closing>>

Page == Log!Snapshot(asked)

Answer ==
  /\ asked # Idle /\ ~crashed
  /\ asked' = Idle /\ param' = 0
  /\ UNCHANGED <<agent, slowLog, served, closing>>

MonitorNext ==
  \/ AgentStep \/ Configure \/ Close \/ Dismantle
  \/ \E r \in Requests : Serve(r) \/ Finish(r)
  \/ Ask \/ Answer

MonitorSpec == MonitorInit /\ [][MonitorNext]_all

(* The caller, the collector and the HTTP threads are scheduled.           *)
MonitorFairSpec ==
  /\ MonitorSpec
  /\ WF_all(Others(CollectLoop))
  /\ WF_all(Configure \/ Close \/ Dismantle \/ Others(Publish \/ Spawn \/ Join))
  /\ WF_all(Answer)

-----------------------------------------------------------------------------
(* The log keeps its promise while start() configures it anew, requests    *)
(* add to it and pages are read.                                           *)
ImplementsRecent == Log!ImplementsRecent

(* A page asked for without a number shows every entry there is, although  *)
(* the capacity is read before the entries: no start() comes in between,   *)
(* for stop() has waited for the page.                                     *)
PageWhole ==
  [][asked # Idle /\ asked' = Idle /\ param = 0 =>
       Page = Log!Snapshot(count)]_all

(* Every statement the client sends is counted under what it says it is,   *)
(* unless one hid its verb behind a length that looks like a letter or too *)
(* many blanks.                                                            *)
CountedAsSent == odd \/ queries = sent
=============================================================================
