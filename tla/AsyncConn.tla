------------------------------ MODULE AsyncConn ------------------------------
(***************************************************************************)
(* The request/response core of EtDBConnection                             *)
(* (src/client/EtDBClient.cpp): application threads that share one         *)
(* connection, the background receiver thread recvLoop() that the first    *)
(* asynchronous insert starts, and the two directions of the TCP stream.   *)
(*                                                                         *)
(* A critical section of _respMutex is one step; so is every access to an  *)
(* atomic or to the socket made outside it.  A thread that blocks on       *)
(* _respCond is a member of asleep until a notify_all empties that set; it *)
(* then evaluates its predicate again.                                     *)
(*                                                                         *)
(* A frame is [by |-> t, id |-> i]: the request of thread t with batch id  *)
(* i, where i = 0 is a synchronous request; the server's answer to it is   *)
(* the same record, so a frame always says whose answer it is.  What the   *)
(* client can read on the wire is only the echoed id (see Dispatch).       *)
(***************************************************************************)
EXTENDS Integers, Sequences, FiniteSets

CONSTANTS
  Threads,         (* the application threads                              *)
  Ops,             (* Ops[t]: the calls thread t makes                     *)
  MaxBatch,        (* bound on the batch ids of one connection             *)
  DefaultPending,  (* initial _maxAsyncPending (1024 in the code)          *)
  ResetPending,    (* what setMaxAsyncPending(n <= 0) sets (512)           *)
  PendingArgs,     (* the arguments given to setMaxAsyncPending            *)
  Echoes,          (* {TRUE}: SUBMIT answers echo the batch id; {FALSE}: 0 *)
  MayLose,         (* whether the TCP connection can break                 *)
  MaxU64,          (* largest value of the unsigned counters               *)
  Nothing          (* no frame                                             *)

OpNames == {"insert", "sync", "waitAll", "waitAllFor", "waitOne",
            "waitOneFor", "get", "setMax", "close", "connect"}

Frame == [by : Threads, id : Nat]

ASSUME AsyncAssumption ==
  /\ Ops \in [Threads -> SUBSET OpNames]
  /\ MaxBatch \in Nat /\ MaxU64 \in Nat /\ MaxBatch < MaxU64
  /\ DefaultPending \in Nat \ {0} /\ ResetPending \in Nat \ {0}
  /\ PendingArgs \subseteq Int
  /\ Echoes \subseteq BOOLEAN
  /\ MayLose \in BOOLEAN
  /\ Nothing \notin Frame

VARIABLES
  sock,        (* TcpClient::valid(_sock)                                  *)
  peer,        (* the established connection still carries data            *)
  toServer,    (* frames sent and not yet answered                         *)
  toClient,    (* answers not yet read                                     *)
  running,     (* _recvRunning                                             *)
  recv,        (* where the receiver thread stands in recvLoop             *)
  frame,       (* the answer it has read and not yet dispatched            *)
  nextBatchId, sent, received, consumed, maxPending,
  results,     (* _asyncResults: batch id -> the answer stored under it    *)
  syncWaiting, syncReady, syncRsp,
  asleep,      (* the threads blocked in _respCond                         *)
  pc, arg,     (* where a thread stands in its call; its id or target      *)
  reply,       (* the answer the thread's last sendRecv() gave its caller  *)
  crashed      (* std::terminate has been called                           *)

link     == <<sock, peer, toServer, toClient>>
thread   == <<running, recv, frame>>
counters == <<nextBatchId, sent, received, consumed, maxPending>>
slot     == <<syncWaiting, syncReady, syncRsp>>
shared   == <<link, thread, counters, results, slot, asleep, crashed>>
vars     == <<shared, pc, arg, reply>>

WaitAllPcs == {"waitAll", "waitAllFor"}
WaitOnePcs == {"waitOne", "waitOneFor"}
WaitPcs == {"reserve", "drain", "syncWait"} \cup WaitAllPcs \cup WaitOnePcs
Pcs     == WaitPcs \cup {"idle", "spawn", "alloc", "count", "send", "claim",
            "syncSend", "directSend", "directRecv", "shut", "join", "reset",
            "handshake"}
RecvPcs == {"none", "check", "select", "got", "exit", "notified", "done"}
Ids     == 1 .. MaxBatch

Init ==
  /\ sock = TRUE /\ peer = TRUE            \* connect() has succeeded
  /\ toServer = <<>> /\ toClient = <<>>
  /\ running = FALSE /\ recv = "none" /\ frame = Nothing
  /\ nextBatchId = 1 /\ sent = 0 /\ received = 0 /\ consumed = 0
  /\ maxPending = DefaultPending
  /\ results = [i \in {} |-> Nothing]
  /\ syncWaiting = FALSE /\ syncReady = FALSE /\ syncRsp = Nothing
  /\ asleep = {}
  /\ pc = [t \in Threads |-> "idle"] /\ arg = [t \in Threads |-> 0]
  /\ reply = [t \in Threads |-> Nothing]
  /\ crashed = FALSE

-----------------------------------------------------------------------------
(* Building blocks.  An operator marked "mutant" is a plausible bug in the *)
(* definition after it: the runs must notice the difference.               *)

At(t, p)     == pc[t] = p /\ t \notin asleep /\ ~crashed
Goto(t, p)   == pc' = [pc EXCEPT ![t] = p]
SetArg(t, n) == arg' = [arg EXCEPT ![t] = n]
Calls(t, op) == At(t, "idle") /\ op \in Ops[t]

NotifyNone == UNCHANGED asleep                                   \* mutant
NotifyAll  == asleep' = {}

(* _respCond.wait: go on once pred holds, block until a notify otherwise.  *)
Await(t, pred, next) ==
  /\ \/ pred /\ Goto(t, next) /\ UNCHANGED asleep
     \/ ~pred /\ asleep' = asleep \cup {t} /\ UNCHANGED pc
  /\ UNCHANGED <<link, thread, counters, results, slot, arg, reply, crashed>>

(* TcpClient::sendAll on an open socket: the frame reaches the server      *)
(* while the connection stands, and vanishes once it is broken.            *)
Transmit(m) ==
  /\ sock
  /\ toServer' = IF peer THEN Append(toServer, m) ELSE toServer
  /\ UNCHANGED <<sock, peer, toClient>>
SendFails == (~sock \/ ~peer) /\ UNCHANGED link

Decrement(n) == IF n = 0 THEN MaxU64 ELSE n - 1     \* fetch_sub(1)

ReceivedAlmost(t) == received + 1 >= arg[t] \/ ~running            \* mutant
Received(t) == received >= arg[t] \/ ~running       \* waitAllAsync's pred
Ready(i)    == i \in DOMAIN results

Target == sent                                       \* waitAllAsync's target

-----------------------------------------------------------------------------
(* executeInsertAsync: ensureAsyncRecv, the backpressure wait, the batch   *)
(* id, and the send under _ioMutex.                                        *)

Inserting == {u \in Threads : pc[u] \in {"spawn", "reserve", "alloc"}}

(* ensureAsyncRecv: whoever sets _recvRunning (compare_exchange) goes on   *)
(* to create the receiver thread; the others go straight to their insert.  *)
InsertCall(t) ==
  /\ Calls(t, "insert") /\ sock
  /\ nextBatchId + Cardinality(Inserting) <= MaxBatch       \* model bound
  /\ running' = TRUE
  /\ Goto(t, IF running THEN "reserve" ELSE "spawn")
  /\ UNCHANGED <<link, recv, frame, counters, results, slot, asleep, arg, reply,
                 crashed>>

(* The new thread is assigned to _recvThread: over a thread that has       *)
(* exited but was never joined (or still runs), std::thread's assignment   *)
(* terminates the process.                                                 *)
Spawn(t) ==
  /\ At(t, "spawn")
  /\ recv' = IF recv = "none" THEN "check" ELSE recv
  /\ crashed' = (recv # "none")
  /\ Goto(t, "reserve")
  /\ UNCHANGED <<link, running, frame, counters, results, slot, asleep, arg,
                 reply>>

(* The system may refuse a thread: the flag is cleared, nobody is woken    *)
(* and the insert returns -1.                                              *)
SpawnFails(t) ==
  /\ At(t, "spawn")
  /\ running' = FALSE
  /\ Goto(t, "idle")
  /\ UNCHANGED <<link, recv, frame, counters, results, slot, asleep, arg, reply,
                 crashed>>

Reserve(t) ==
  /\ At(t, "reserve")
  /\ Await(t, received - consumed < maxPending \/ ~running,
              IF running THEN "alloc" ELSE "idle")

Alloc(t) ==
  /\ At(t, "alloc")
  /\ SetArg(t, nextBatchId)
  /\ nextBatchId' = nextBatchId + 1
  /\ Goto(t, "count")
  /\ UNCHANGED <<link, thread, sent, received, consumed, maxPending, results,
                 slot, asleep, reply, crashed>>

Count(t) ==
  /\ At(t, "count")
  /\ sent' = (sent + 1) % (MaxU64 + 1)
  /\ Goto(t, "send")
  /\ UNCHANGED <<link, thread, nextBatchId, received, consumed, maxPending,
                 results, slot, asleep, arg, reply, crashed>>

InsertSend(t) ==
  /\ At(t, "send")
  /\ \/ Transmit([by |-> t, id |-> arg[t]]) /\ UNCHANGED sent
     \/ SendFails /\ sent' = Decrement(sent)
  /\ Goto(t, "idle")
  /\ UNCHANGED <<thread, nextBatchId, received, consumed, maxPending, results,
                 slot, asleep, arg, reply, crashed>>

-----------------------------------------------------------------------------
(* sendRecv: with a receiver thread, drain the pending inserts and take    *)
(* the next answer through the sync slot; without one, read the socket.    *)

SyncCall(t) ==
  /\ Calls(t, "sync") /\ sock
  /\ Goto(t, IF running THEN "drain" ELSE "directSend")
  /\ SetArg(t, Target)
  /\ reply' = [reply EXCEPT ![t] = Nothing]
  /\ UNCHANGED shared

Drain(t) ==
  /\ At(t, "drain")
  /\ Await(t, Received(t), IF running /\ sock THEN "claim" ELSE "idle")

Claim(t) ==
  /\ At(t, "claim")
  /\ syncWaiting' = TRUE /\ syncReady' = FALSE
  /\ Goto(t, "syncSend")
  /\ UNCHANGED <<link, thread, counters, results, syncRsp, asleep, arg, reply,
                 crashed>>

SyncSend(t) ==
  /\ At(t, "syncSend")
  /\ \/ /\ Transmit([by |-> t, id |-> 0])
        /\ Goto(t, "syncWait") /\ UNCHANGED syncWaiting
     \/ SendFails /\ syncWaiting' = FALSE /\ Goto(t, "idle")
  /\ UNCHANGED <<thread, counters, results, syncReady, syncRsp, asleep, arg,
                 reply, crashed>>

(* The slot is taken whether an answer or the end of the receiver filled   *)
(* it: the latter hands the caller code -1 and no answer.                  *)
SyncTake(t) ==
  /\ At(t, "syncWait") /\ (syncReady \/ ~running)
  /\ reply' = [reply EXCEPT ![t] = IF syncReady THEN syncRsp ELSE Nothing]
  /\ syncWaiting' = FALSE
  /\ Goto(t, "idle")
  /\ UNCHANGED <<link, thread, counters, results, syncReady, syncRsp, asleep,
                 arg, crashed>>

SyncWait(t) ==
  \/ SyncTake(t)
  \/ At(t, "syncWait") /\ ~syncReady /\ running /\ Await(t, FALSE, "idle")

DirectSend(t) ==
  /\ At(t, "directSend")
  /\ \/ Transmit([by |-> t, id |-> 0]) /\ Goto(t, "directRecv")
     \/ SendFails /\ Goto(t, "idle")
  /\ UNCHANGED <<thread, counters, results, slot, asleep, arg, reply, crashed>>

DirectRecv(t) ==
  /\ At(t, "directRecv")
  /\ \/ /\ sock /\ toClient # <<>>
        /\ reply' = [reply EXCEPT ![t] = Head(toClient)]
        /\ toClient' = Tail(toClient)
     \/ /\ ~sock \/ (toClient = <<>> /\ ~peer)
        /\ UNCHANGED <<reply, toClient>>
  /\ Goto(t, "idle")
  /\ UNCHANGED <<sock, peer, toServer, thread, counters, results, slot, asleep,
                 arg, crashed>>

-----------------------------------------------------------------------------
(* waitAllAsync and waitAsyncResult, without (timeoutMs <= 0) and with a   *)
(* timeout; getAsyncResult; setMaxAsyncPending.                            *)

WaitAllCall(t) ==
  /\ \E op \in WaitAllPcs : Calls(t, op) /\ Goto(t, op)
  /\ SetArg(t, Target)
  /\ UNCHANGED <<shared, reply>>

WaitOneCall(t, i) ==
  /\ \E op \in WaitOnePcs : Calls(t, op) /\ Goto(t, op)
  /\ i < nextBatchId
  /\ SetArg(t, i)
  /\ UNCHANGED <<shared, reply>>

Wait(t) ==
  \/ /\ \E p \in WaitAllPcs : At(t, p)
     /\ Await(t, Received(t), "idle")
  \/ /\ \E p \in WaitOnePcs : At(t, p)
     /\ Await(t, Ready(arg[t]) \/ ~running, "idle")

Timeout(t) ==
  /\ pc[t] \in {"waitAllFor", "waitOneFor"} /\ ~crashed
  /\ asleep' = asleep \ {t}
  /\ Goto(t, "idle")
  /\ UNCHANGED <<link, thread, counters, results, slot, arg, reply, crashed>>

Keep(i)    == results                                            \* mutant
Without(i) == [j \in DOMAIN results \ {i} |-> results[j]]

(* A result that is not there is reported as such and changes nothing.     *)
GetResult(t, i) ==
  /\ Calls(t, "get") /\ Ready(i)
  /\ results' = Without(i)
  /\ consumed' = consumed + 1
  /\ NotifyAll
  /\ UNCHANGED <<link, thread, nextBatchId, sent, received, maxPending, slot,
                 pc, arg, reply, crashed>>

Cap(n)    == IF n > 0 THEN n ELSE ResetPending

SetMaxPending(t, n) ==
  /\ Calls(t, "setMax")
  /\ maxPending' = Cap(n)
  /\ NotifyAll
  /\ UNCHANGED <<link, thread, nextBatchId, sent, received, consumed, results,
                 slot, pc, arg, reply, crashed>>

-----------------------------------------------------------------------------
(* close, and connect, which begins with it (arg = 1).                     *)

Hangup == sock' = FALSE /\ peer' = FALSE /\ toServer' = <<>> /\ toClient' = <<>>

(* _recvRunning.exchange(false); a receiver that ran or can be joined has  *)
(* the socket closed under it.                                             *)
CloseCall(t) ==
  /\ \E op \in {"close", "connect"} :
       Calls(t, op) /\ SetArg(t, IF op = "connect" THEN 1 ELSE 0)
  /\ running' = FALSE
  /\ Goto(t, IF running \/ recv # "none" THEN "shut" ELSE "join")
  /\ UNCHANGED <<link, recv, frame, counters, results, slot, asleep, reply,
                 crashed>>

CloseShut(t) ==
  /\ At(t, "shut")
  /\ Hangup
  /\ Goto(t, "join")
  /\ UNCHANGED <<thread, counters, results, slot, asleep, arg, reply, crashed>>

CloseJoin(t) ==
  /\ At(t, "join")
  /\ recv \in {"none", "done"}
  /\ recv' = "none"
  /\ Goto(t, "reset")
  /\ UNCHANGED <<link, running, frame, counters, results, slot, asleep, arg,
                 reply, crashed>>

(* Fail a pending synchronous request: close() and the end of recvLoop().  *)
FailSlot ==
  /\ IF syncWaiting /\ ~syncReady
     THEN syncReady' = TRUE /\ syncRsp' = Nothing
     ELSE UNCHANGED <<syncReady, syncRsp>>
  /\ UNCHANGED syncWaiting

NoResults  == [i \in {} |-> Nothing]
NextId     == nextBatchId                                        \* mutant
FirstId    == 1

CloseReset(t) ==
  /\ At(t, "reset")
  /\ FailSlot
  /\ results' = NoResults
  /\ sent' = 0 /\ received' = 0 /\ consumed' = 0 /\ nextBatchId' = FirstId
  /\ NotifyAll
  /\ Hangup
  /\ Goto(t, IF arg[t] = 1 THEN "handshake" ELSE "idle")
  /\ UNCHANGED <<thread, maxPending, arg, reply, crashed>>

(* TcpClient::connect and the two-phase CM_CONNECT exchange, as one step;  *)
(* every failure leaves _sock invalid.                                     *)
Handshake(t) ==
  /\ At(t, "handshake")
  /\ \/ sock' = TRUE /\ peer' = TRUE /\ toServer' = <<>> /\ toClient' = <<>>
     \/ UNCHANGED link
  /\ Goto(t, "idle")
  /\ UNCHANGED <<thread, counters, results, slot, asleep, arg, reply, crashed>>

-----------------------------------------------------------------------------
(* recvLoop *)

RecvAt(p) == recv = p /\ ~crashed
RecvGoto(p) ==
  /\ recv' = p
  /\ UNCHANGED <<running, counters, results, pc, arg, reply, crashed>>
Eof == ~sock \/ (toClient = <<>> /\ ~peer)

Always     == TRUE                                               \* mutant
IfPending  == running /\ received < sent                         \* mutant
LoopGoesOn == running

RecvCheck ==
  /\ RecvAt("check")
  /\ RecvGoto(IF LoopGoesOn THEN "select" ELSE "exit")
  /\ UNCHANGED <<link, frame, slot, asleep>>

(* select() timed out, or failed on a closed socket: look at the flag.     *)
RecvTimeout ==
  /\ RecvAt("select") /\ (~sock \/ (toClient = <<>> /\ peer))
  /\ RecvGoto("check")
  /\ UNCHANGED <<link, frame, slot, asleep>>

RecvRead ==
  /\ RecvAt("select") /\ sock /\ toClient # <<>>
  /\ frame' = Head(toClient) /\ toClient' = Tail(toClient)
  /\ RecvGoto("got")
  /\ UNCHANGED <<sock, peer, toServer, slot, asleep>>

(* recv() reports the end of the stream, or was cut short by close().      *)
RecvEof ==
  /\ RecvAt("select") /\ Eof
  /\ RecvGoto("exit")
  /\ UNCHANGED <<link, frame, slot, asleep>>

(* The batch id an async answer is filed under: the echoed one, or the     *)
(* position of the answer.                                                 *)
ResultKeyLate(m, echoed)  ==                                     \* mutant
  IF echoed /\ m.id # 0 THEN m.id ELSE received + 2
ResultKey(m, echoed) == IF echoed /\ m.id # 0 THEN m.id ELSE received + 1

Store(i, m) == [j \in DOMAIN results \cup {i} |->
                  IF j = i THEN m ELSE results[j]]

CountEvery == received + 1                                       \* mutant
CountAsync == IF syncWaiting THEN received ELSE received + 1

Dispatch ==
  /\ RecvAt("got")
  /\ IF syncWaiting
     THEN syncReady' = TRUE /\ syncRsp' = frame /\ UNCHANGED results
     ELSE /\ \E echoed \in Echoes :
               results' = Store(ResultKey(frame, echoed), frame)
          /\ UNCHANGED <<syncReady, syncRsp>>
  /\ received' = CountAsync
  /\ NotifyAll
  /\ recv' = "check" /\ frame' = Nothing
  /\ UNCHANGED <<link, running, nextBatchId, sent, consumed, maxPending,
                 syncWaiting, pc, arg, reply, crashed>>

(* After the loop: fail a pending synchronous request and wake everyone    *)
(* up; only then is _recvRunning cleared.                                  *)
RecvExit ==
  /\ RecvAt("exit")
  /\ FailSlot /\ NotifyAll
  /\ RecvGoto("notified")
  /\ UNCHANGED <<link, frame>>

Stopped == FALSE

RecvDone ==
  /\ RecvAt("notified")
  /\ running' = Stopped /\ recv' = "done"
  /\ UNCHANGED <<link, frame, counters, results, slot, asleep, pc, arg, reply,
                 crashed>>

-----------------------------------------------------------------------------
(* The server (external) answers the requests of a connection in order;    *)
(* the connection may break.                                               *)

ServerReply ==
  /\ ~crashed /\ toServer # <<>>
  /\ toClient' = Append(toClient, Head(toServer))
  /\ toServer' = Tail(toServer)
  /\ UNCHANGED <<sock, peer, thread, counters, results, slot, asleep, pc, arg,
                 reply, crashed>>

Lose ==
  /\ MayLose /\ ~crashed /\ sock /\ peer
  /\ peer' = FALSE /\ toServer' = <<>>
  /\ UNCHANGED <<sock, toClient, thread, counters, results, slot, asleep, pc,
                 arg, reply, crashed>>

-----------------------------------------------------------------------------
(* A new call of an application thread. *)
Call(t) ==
  \/ InsertCall(t) \/ SyncCall(t) \/ WaitAllCall(t) \/ CloseCall(t)
  \/ \E i \in Ids : WaitOneCall(t, i)
  \/ \E n \in PendingArgs : SetMaxPending(t, n)

Consume(t) == \E i \in DOMAIN results : GetResult(t, i)

(* A step of a call that is under way. *)
Step(t) ==
  \/ Spawn(t) \/ SpawnFails(t)
  \/ Reserve(t) \/ Alloc(t) \/ Count(t) \/ InsertSend(t)
  \/ Drain(t) \/ Claim(t) \/ SyncSend(t) \/ SyncWait(t)
  \/ DirectSend(t) \/ DirectRecv(t)
  \/ Wait(t)
  \/ CloseShut(t) \/ CloseJoin(t) \/ CloseReset(t) \/ Handshake(t)

Receiver == \/ RecvCheck \/ RecvTimeout \/ RecvRead \/ RecvEof
            \/ Dispatch \/ RecvExit \/ RecvDone

Next ==
  \/ \E t \in Threads : Call(t) \/ Consume(t) \/ Step(t) \/ Timeout(t)
  \/ Receiver \/ ServerReply \/ Lose

Spec == Init /\ [][Next]_vars

(* Threads and the receiver are scheduled by the operating system and the  *)
(* server answers what it has received; nobody is obliged to call, and a   *)
(* connection need not break.                                              *)
Fairness ==
  /\ \A t \in Threads : WF_vars(Step(t))
  /\ WF_vars(Receiver) /\ WF_vars(ServerReply)

FairSpec == Spec /\ Fairness

(* The application also takes results again and again, whatever else it    *)
(* calls in between (the consumer of tests/async_backpressure_test.cpp).   *)
ConsumingSpec == FairSpec /\ \A t \in Threads : SF_vars(Consume(t))

-----------------------------------------------------------------------------
(* Properties *)

Answer == Frame \cup {Nothing}

TypeLink ==
  /\ sock \in BOOLEAN /\ peer \in BOOLEAN
  /\ toServer \in Seq(Frame) /\ toClient \in Seq(Frame)
TypeReceiver ==
  /\ running \in BOOLEAN /\ recv \in RecvPcs
  /\ frame \in Answer /\ (recv = "got" <=> frame # Nothing)
TypeCounters ==
  /\ nextBatchId \in Nat \ {0} /\ sent \in 0 .. MaxU64
  /\ received \in Nat /\ consumed \in Nat /\ maxPending \in Nat \ {0}
TypeResults ==
  /\ DOMAIN results \subseteq Nat \ {0}
  /\ \A i \in DOMAIN results : results[i] \in Frame
TypeSlot ==
  /\ syncWaiting \in BOOLEAN /\ syncReady \in BOOLEAN /\ syncRsp \in Answer
TypeThreads ==
  /\ asleep \subseteq Threads /\ crashed \in BOOLEAN
  /\ pc \in [Threads -> Pcs] /\ arg \in [Threads -> Nat]
  /\ reply \in [Threads -> Answer]

(* Type correctness: the counters stay within their width, the cap stays   *)
(* positive, results are answers filed under positive ids, and the         *)
(* receiver holds a frame exactly between reading and dispatching it.      *)
TypeOK == /\ TypeLink /\ TypeReceiver /\ TypeCounters
          /\ TypeResults /\ TypeSlot /\ TypeThreads

(* The frames on their way from a send to a result, oldest first. *)
Pipeline == (IF recv = "got" THEN <<frame>> ELSE <<>>) \o toClient \o toServer

(* What asyncPendingCount() reports (received - consumed, the number that  *)
(* backpressure compares with the cap) is the number of results held.      *)
Accounting == received - consumed = Cardinality(DOMAIN results)

(* getAsyncResult(id) can only hand out the server's answer to batch id,   *)
(* whether the server echoes ids or the client counts answers.             *)
Correlated == \A i \in DOMAIN results : results[i].id = i

(* sendRecv() never hands its caller the answer to another request: "so    *)
(* responses never get misread".                                           *)
SyncOwnReply ==
  \A t \in Threads : reply[t] # Nothing => reply[t].by = t /\ reply[t].id = 0

(* Once waitAllAsync()'s count is reached, no batch submitted before the   *)
(* call is still on its way.                                               *)
WaitAllExact ==
  \A t \in Threads :
    pc[t] \in WaitAllPcs \cup {"drain"} /\ received >= arg[t] =>
      \A k \in 1 .. Len(Pipeline) :
        Pipeline[k].id # 0 => Pipeline[k].id > arg[t]

(* The result map only holds batches allocated on the current connection:  *)
(* close() leaves nothing behind that a reused batch id could hit.         *)
NoStaleResult ==
  /\ \A i \in DOMAIN results : i < nextBatchId
  /\ received <= sent /\ sent < nextBatchId

(* What a call blocked in _respCond waits for, the end of the receiver     *)
(* apart: answers, a result, room under the cap.                           *)
Served(t) ==
  \/ pc[t] \in WaitAllPcs \cup {"drain"} /\ received >= arg[t]
  \/ pc[t] \in WaitOnePcs /\ Ready(arg[t])
  \/ pc[t] = "reserve" /\ received - consumed < maxPending
  \/ pc[t] = "syncWait" /\ syncReady

(* No caller sleeps on what has come: whoever files an answer, takes a     *)
(* result, raises the cap or closes wakes those it concerns, although each *)
(* of them tested its predicate on its own.  (The end of the receiver is   *)
(* the wake-up that can be lost: see WaitersReturn.)                       *)
AnswersWake == \A t \in asleep : ~Served(t)

(* At most one synchronous answer is outstanding, and while a caller waits *)
(* in the sync slot nothing else is on its way that could fill it.         *)
SlotExclusive ==
  \A t \in Threads :
    pc[t] = "syncWait" => \A k \in 1 .. Len(Pipeline) :
                            k = 1 /\ Pipeline[k] = [by |-> t, id |-> 0]

(* A failed call is reported, it never takes the process down:             *)
(* executeInsertAsync() "Returns -1 on failure".                           *)
NoTerminate == ~crashed

(* Every thread that waits for answers without a timeout stops waiting,    *)
(* "connection closed or error" included.                                  *)
Waits == {"waitAll", "drain", "syncWait"}
WaitersReturn == \A t \in Threads : pc[t] \in Waits ~> pc[t] \notin Waits

(* On a connection that stands, every wait for answers ends.               *)
WaitersAnswered ==
  \A t \in Threads : pc[t] \in Waits ~> pc[t] \notin Waits \/ ~peer

(* A submitter held back by backpressure goes on, as long as nobody waits  *)
(* for the result of one batch instead of taking those that are there (a   *)
(* wait for a result already taken ends with the connection only).         *)
BackpressureReleased ==
  \A t \in Threads :
    pc[t] = "reserve" ~> \/ pc[t] # "reserve" \/ ~peer
                         \/ \E u \in Threads : pc[u] \in WaitOnePcs

(* Every batch that is sent on a standing connection gets its result.      *)
AnswersArrive ==
  \A t \in Threads, i \in Ids :
    pc[t] = "send" /\ arg[t] = i ~> Ready(i) \/ ~peer

(* "close() can never hang on the receiver thread": it always joins it.    *)
CloseTerminates ==
  \A t \in Threads : pc[t] \in {"shut", "join"} ~> pc[t] = "reset"

(* "Wake any waiter that is blocked on a never-arriving response": once    *)
(* close() joins the receiver, every blocked call returns.                 *)
CloseReleasesWaiters ==
  \A t, c \in Threads :
    pc[c] = "join" /\ pc[t] \in WaitPcs ~> pc[t] \notin WaitPcs

-----------------------------------------------------------------------------
(* The connection implements AsyncBatches: a batch is open while its frame *)
(* is about to be sent or on its way, and ready while its result is held.  *)

Open(i) == \/ \E t \in Threads : pc[t] \in {"count", "send"} /\ arg[t] = i
           \/ \E k \in 1 .. Len(Pipeline) : Pipeline[k].id = i

BatchStatus == [i \in Ids |-> IF i >= nextBatchId THEN "free"
                              ELSE IF Ready(i) THEN "ready"
                              ELSE IF Open(i) THEN "open" ELSE "closed"]

Batches == INSTANCE AsyncBatches WITH status <- BatchStatus

(* At most one result per batch, taken at most once, for ids in order.     *)
ImplementsBatches == Batches!Spec

=============================================================================
