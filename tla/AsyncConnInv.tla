---------------------------- MODULE AsyncConnInv ----------------------------
(***************************************************************************)
(* The inductive invariant of AsyncConn for the way the tests use one      *)
(* connection: one thread issues every request, opens and closes; the      *)
(* others wait for results and take them.                                  *)
(***************************************************************************)
EXTENDS AsyncConn

SoleRequester(r) ==
  \A t \in Threads \ {r} :
    Ops[t] \cap {"insert", "sync", "close", "connect"} = {}

Bystander(t) == pc[t] \in {"idle"} \cup WaitAllPcs \cup WaitOnePcs

Async(r, i) == [by |-> r, id |-> i]
Sync(r)     == [by |-> r, id |-> 0]

(* The frames on their way, and whether one of them is a synchronous       *)
(* request's.                                                              *)
Held        == IF recv = "got" THEN 1 ELSE 0
Way         == Held + Len(toClient) + Len(toServer)
SyncOut(r)  == pc[r] \in {"syncWait", "directRecv"}
Batch(r)    == IF SyncOut(r) THEN 0 ELSE Way
Sending(r)  == IF pc[r] = "send" THEN 1 ELSE 0
Counting(r) == IF pc[r] = "count" THEN 1 ELSE 0
Started     == {"check", "select", "got", "exit", "notified"}

(* Nothing travels on a broken or closed connection. *)
InvLink ==
  /\ ~sock => ~peer /\ toClient = <<>>
  /\ ~peer => toServer = <<>>

(* The receiver lives from the first insert to the end of the stream, or   *)
(* to the join in close(); without it nothing asynchronous is on its way.  *)
(* Between the flag and the thread there is none.                          *)
InvReceiver(r) ==
  /\ running /\ ~crashed => recv \in Started \/ pc[r] = "spawn"
  /\ pc[r] = "spawn" => running /\ recv \in {"none", "done"}
  /\ running => sock
  /\ ~running /\ recv \in Started => pc[r] \in {"shut", "join"}
  /\ recv \in {"exit", "notified", "done"} /\ pc[r] \notin {"shut", "join"} =>
       ~peer /\ toClient = <<>>
  /\ recv = "none" /\ pc[r] # "directRecv" => toClient = <<>> /\ toServer = <<>>
  /\ pc[r] \in {"directSend", "directRecv"} => recv \in {"none", "done"}
  /\ pc[r] \in {"reserve", "alloc", "count", "send", "drain", "claim",
                "syncSend", "syncWait"} => recv # "none"
  /\ pc[r] = "join" /\ recv # "none" => ~sock
  /\ pc[r] \in {"reset", "handshake"} => recv = "none" /\ ~running
  /\ pc[r] \in {"shut", "join"} => ~running

(* The asynchronous frames on their way carry the ids that follow the      *)
(* number of answers received, in order; a synchronous one travels alone.  *)
InvWire(r) ==
  /\ ~SyncOut(r) =>
       /\ recv = "got" => frame = Async(r, received + 1)
       /\ \A j \in 1 .. Len(toClient) :
            toClient[j] = Async(r, received + Held + j)
       /\ \A j \in 1 .. Len(toServer) :
            toServer[j] = Async(r, received + Held + Len(toClient) + j)
  /\ SyncOut(r) =>
       /\ Way <= 1
       /\ recv = "got" => frame = Sync(r)
       /\ \A j \in 1 .. Len(toClient) : toClient[j] = Sync(r)
       /\ \A j \in 1 .. Len(toServer) : toServer[j] = Sync(r)

(* The counters account for every frame; while the connection stands they  *)
(* do so exactly.                                                          *)
InvCount(r) ==
  /\ received + Batch(r) + Sending(r) <= sent
  /\ sent + Counting(r) < nextBatchId /\ nextBatchId <= MaxBatch + 1
  /\ pc[r] \in {"spawn", "reserve", "alloc"} => nextBatchId <= MaxBatch
  /\ peer => nextBatchId = received + Batch(r) + Sending(r) + Counting(r) + 1
  /\ pc[r] \in {"count", "send"} => arg[r] = nextBatchId - 1
  /\ pc[r] = "drain" => arg[r] = sent
  /\ pc[r] \in {"claim", "syncSend", "directSend"} => Way = 0
  /\ pc[r] = "handshake" => nextBatchId = 1

(* The sync slot is claimed exactly while the requester is in sendRecv()   *)
(* with a receiver, and filled by its own answer or by the end of the      *)
(* connection.                                                             *)
InvSlot(r) ==
  /\ syncWaiting <=> pc[r] \in {"syncSend", "syncWait"}
  /\ syncWaiting /\ syncReady =>
       /\ syncRsp \in {Nothing, Sync(r)}
       /\ pc[r] = "syncSend" => ~peer
       /\ pc[r] = "syncWait" => Way = 0

(* Results are filed under their own ids, all of them received ones. *)
InvResults ==
  /\ \A i \in DOMAIN results : i <= received /\ results[i].id = i
  /\ IsFiniteSet(DOMAIN results)
  /\ Cardinality(DOMAIN results) = received - consumed

InvReply(r) ==
  \A t \in Threads : reply[t] # Nothing => t = r /\ reply[t] = Sync(r)

SoleInv(r) ==
  /\ \A t \in Threads \ {r} : Bystander(t)
  /\ InvLink /\ InvReceiver(r) /\ InvWire(r) /\ InvCount(r)
  /\ InvSlot(r) /\ InvResults /\ InvReply(r)

=============================================================================
