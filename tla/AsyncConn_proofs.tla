-------------------------- MODULE AsyncConn_proofs --------------------------
(***************************************************************************)
(* Proofs about AsyncConn, for every set of threads, every assignment of   *)
(* calls to them, every bound and every cap: first type correctness and    *)
(* the correlation of threads that only submit, then SoleInv (see          *)
(* AsyncConnInv) where one thread issues every request, and with it the    *)
(* correlation, the accounting and the exclusive use of the wire.  One     *)
(* lemma per action; the theorems come last, with the refinement of        *)
(* AsyncBatches.                                                           *)
(***************************************************************************)
EXTENDS AsyncConnInv, FiniteSetTheorems, TLAPS

(* A request is a frame. *)
LEMMA FrameType ==
  ASSUME NEW t \in Threads, NEW i \in Nat
  PROVE  [by |-> t, id |-> i] \in Frame
BY DEF Frame

(* An empty channel is a sequence of frames, and so are its parts. *)
LEMMA ChannelType ==
  /\ <<>> \in Seq(Frame)
  /\ \A q \in Seq(Frame) : q # <<>> => Head(q) \in Frame /\ Tail(q) \in Seq(Frame)
  /\ \A q \in Seq(Frame), m \in Frame : Append(q, m) \in Seq(Frame)
OBVIOUS

(* Sending a frame keeps the channels well-typed, sent or lost. *)
LEMMA TransmitType ==
  ASSUME TypeLink, NEW m \in Frame, Transmit(m) PROVE TypeLink'
<1>1. toServer' \in Seq(Frame)
  <2>1. CASE peer
    BY <2>1, ChannelType DEF Transmit, TypeLink
  <2>2. CASE ~peer
    BY <2>2 DEF Transmit, TypeLink
  <2> QED
    BY <2>1, <2>2
<1> QED
  BY <1>1 DEF Transmit, TypeLink

(* Type correctness of the connection: the counters, the result map, the   *)
(* sync slot and the two channels keep their types whatever is called.     *)
THEOREM TypeCorrect == Spec => []TypeOK
<1> USE AsyncAssumption DEF AsyncAssumption
<1> USE ChannelType DEF TypeOK, TypeLink, TypeReceiver, TypeCounters, TypeResults, TypeSlot, TypeThreads, Answer, Pcs, WaitPcs, WaitAllPcs, WaitOnePcs, RecvPcs,
            vars, shared, link, thread, counters, slot
<1>1. Init => TypeOK
  <2> SUFFICES ASSUME Init PROVE TypeOK
    OBVIOUS
  <2>1. TypeLink
    BY DEF Init
  <2>2. TypeReceiver
    BY DEF Init
  <2>3. TypeCounters
    BY DEF Init
  <2>4. TypeResults
    BY DEF Init
  <2>5. TypeSlot
    BY DEF Init
  <2>6. TypeThreads
    BY DEF Init
  <2> QED
    BY <2>1, <2>2, <2>3, <2>4, <2>5, <2>6
<1>2. TypeOK /\ [Next]_vars => TypeOK'
  <2> SUFFICES ASSUME TypeOK, [Next]_vars PROVE TypeOK'
    OBVIOUS
  <2> USE DEF At, Goto, SetArg, Calls, NotifyAll, Await
  <2>1. ASSUME NEW t \in Threads, InsertCall(t) PROVE TypeOK'
    BY <2>1 DEF InsertCall
  <2>2. ASSUME NEW t \in Threads, Reserve(t) PROVE TypeOK'
    BY <2>2 DEF Reserve
  <2>3. ASSUME NEW t \in Threads, Alloc(t) PROVE TypeOK'
    BY <2>3 DEF Alloc
  <2>4. ASSUME NEW t \in Threads, Count(t) PROVE TypeOK'
    BY <2>4 DEF Count
  <2>5. ASSUME NEW t \in Threads, InsertSend(t) PROVE TypeOK'
    <3>1. TypeLink'
      <4>1. CASE SendFails
        BY <4>1 DEF SendFails
      <4>2. CASE Transmit([by |-> t, id |-> arg[t]])
        BY <4>2, FrameType, TransmitType
      <4> QED
        BY <2>5, <4>1, <4>2 DEF InsertSend
    <3>2. TypeReceiver'
      BY <2>5 DEF InsertSend, Decrement
    <3>3. TypeCounters'
      BY <2>5 DEF InsertSend, Decrement
    <3>4. TypeResults'
      BY <2>5 DEF InsertSend, Decrement
    <3>5. TypeSlot'
      BY <2>5 DEF InsertSend, Decrement
    <3>6. TypeThreads'
      BY <2>5 DEF InsertSend, Decrement
    <3> QED
      BY <3>1, <3>2, <3>3, <3>4, <3>5, <3>6
  <2>6. ASSUME NEW t \in Threads, SyncCall(t) PROVE TypeOK'
    BY <2>6 DEF SyncCall, Target
  <2>7. ASSUME NEW t \in Threads, Drain(t) PROVE TypeOK'
    BY <2>7 DEF Drain, Received
  <2>8. ASSUME NEW t \in Threads, Claim(t) PROVE TypeOK'
    BY <2>8 DEF Claim
  <2>9. ASSUME NEW t \in Threads, SyncSend(t) PROVE TypeOK'
    <3>1. TypeLink'
      <4>1. CASE SendFails
        BY <4>1 DEF SendFails
      <4>2. CASE Transmit([by |-> t, id |-> 0])
        BY <4>2, FrameType, TransmitType
      <4> QED
        BY <2>9, <4>1, <4>2 DEF SyncSend
    <3>2. TypeReceiver'
      BY <2>9 DEF SyncSend
    <3>3. TypeCounters'
      BY <2>9 DEF SyncSend
    <3>4. TypeResults'
      BY <2>9 DEF SyncSend
    <3>5. TypeSlot'
      BY <2>9 DEF SyncSend
    <3>6. TypeThreads'
      BY <2>9 DEF SyncSend
    <3> QED
      BY <3>1, <3>2, <3>3, <3>4, <3>5, <3>6
  <2>10. ASSUME NEW t \in Threads, SyncWait(t) PROVE TypeOK'
    <3>1. TypeLink'
      BY <2>10 DEF SyncWait, SyncTake
    <3>2. TypeReceiver'
      BY <2>10 DEF SyncWait, SyncTake
    <3>3. TypeCounters'
      BY <2>10 DEF SyncWait, SyncTake
    <3>4. TypeResults'
      BY <2>10 DEF SyncWait, SyncTake
    <3>5. TypeSlot'
      BY <2>10 DEF SyncWait, SyncTake
    <3>6. TypeThreads'
      <4>1. CASE SyncTake(t)
        <5>1. reply' \in [Threads -> Answer]
          BY <4>1 DEF SyncTake
        <5> QED
          BY <4>1, <5>1 DEF SyncTake
      <4>2. CASE Await(t, FALSE, "idle")
        BY <4>2
      <4> QED
        BY <2>10, <4>1, <4>2 DEF SyncWait
    <3> QED
      BY <3>1, <3>2, <3>3, <3>4, <3>5, <3>6
  <2>11. ASSUME NEW t \in Threads, DirectSend(t) PROVE TypeOK'
    <3>1. TypeLink'
      <4>1. CASE SendFails
        BY <4>1 DEF SendFails
      <4>2. CASE Transmit([by |-> t, id |-> 0])
        BY <4>2, FrameType, TransmitType
      <4> QED
        BY <2>11, <4>1, <4>2 DEF DirectSend
    <3>2. TypeReceiver'
      BY <2>11 DEF DirectSend
    <3>3. TypeCounters'
      BY <2>11 DEF DirectSend
    <3>4. TypeResults'
      BY <2>11 DEF DirectSend
    <3>5. TypeSlot'
      BY <2>11 DEF DirectSend
    <3>6. TypeThreads'
      BY <2>11 DEF DirectSend
    <3> QED
      BY <3>1, <3>2, <3>3, <3>4, <3>5, <3>6
  <2>12. ASSUME NEW t \in Threads, DirectRecv(t) PROVE TypeOK'
    BY <2>12 DEF DirectRecv
  <2>13. ASSUME NEW t \in Threads, WaitAllCall(t) PROVE TypeOK'
    BY <2>13 DEF WaitAllCall, Target
  <2>14. ASSUME NEW t \in Threads, NEW i \in Ids, WaitOneCall(t, i) PROVE TypeOK'
    BY <2>14 DEF WaitOneCall, Ids
  <2>15. ASSUME NEW t \in Threads, Wait(t) PROVE TypeOK'
    <3>1. CASE /\ Goto(t, "idle") /\ UNCHANGED asleep
               /\ UNCHANGED <<link, thread, counters, results, slot, arg, reply,
                              crashed>>
      BY <3>1
    <3>2. CASE /\ asleep' = asleep \cup {t} /\ UNCHANGED pc
               /\ UNCHANGED <<link, thread, counters, results, slot, arg, reply,
                              crashed>>
      BY <3>2
    <3> QED
      BY <2>15, <3>1, <3>2, Zenon DEF Wait
  <2>16. ASSUME NEW t \in Threads, Timeout(t) PROVE TypeOK'
    BY <2>16 DEF Timeout
  <2>17. ASSUME NEW t \in Threads, NEW i \in DOMAIN results, GetResult(t, i)
         PROVE TypeOK'
    BY <2>17 DEF GetResult, Without, Ready
  <2>18. ASSUME NEW t \in Threads, NEW n \in PendingArgs, SetMaxPending(t, n)
         PROVE TypeOK'
    BY <2>18 DEF SetMaxPending, Cap
  <2>19. ASSUME NEW t \in Threads, CloseCall(t) PROVE TypeOK'
    <3>1. TypeLink'
      BY <2>19 DEF CloseCall
    <3>2. TypeReceiver'
      BY <2>19 DEF CloseCall
    <3>3. TypeCounters'
      BY <2>19 DEF CloseCall
    <3>4. TypeResults'
      BY <2>19 DEF CloseCall
    <3>5. TypeSlot'
      BY <2>19 DEF CloseCall
    <3>6. TypeThreads'
      BY <2>19 DEF CloseCall
    <3> QED
      BY <3>1, <3>2, <3>3, <3>4, <3>5, <3>6
  <2>20. ASSUME NEW t \in Threads, CloseShut(t) PROVE TypeOK'
    BY <2>20 DEF CloseShut, Hangup
  <2>21. ASSUME NEW t \in Threads, CloseJoin(t) PROVE TypeOK'
    BY <2>21 DEF CloseJoin
  <2>22. ASSUME NEW t \in Threads, CloseReset(t) PROVE TypeOK'
    <3>1. TypeLink'
      BY <2>22 DEF CloseReset, FailSlot, Hangup, NoResults, FirstId
    <3>2. TypeReceiver'
      BY <2>22 DEF CloseReset, FailSlot, Hangup, NoResults, FirstId
    <3>3. TypeCounters'
      BY <2>22 DEF CloseReset, FailSlot, Hangup, NoResults, FirstId
    <3>4. TypeResults'
      BY <2>22 DEF CloseReset, FailSlot, Hangup, NoResults, FirstId
    <3>5. TypeSlot'
      BY <2>22 DEF CloseReset, FailSlot, Hangup, NoResults, FirstId
    <3>6. TypeThreads'
      BY <2>22 DEF CloseReset, FailSlot, Hangup, NoResults, FirstId
    <3> QED
      BY <3>1, <3>2, <3>3, <3>4, <3>5, <3>6
  <2>23. ASSUME NEW t \in Threads, Handshake(t) PROVE TypeOK'
    BY <2>23 DEF Handshake
  <2>24. CASE RecvCheck
    BY <2>24 DEF RecvCheck, RecvAt, RecvGoto, LoopGoesOn
  <2>25. CASE RecvTimeout
    BY <2>25 DEF RecvTimeout, RecvAt, RecvGoto
  <2>26. CASE RecvRead
    BY <2>26 DEF RecvRead, RecvAt, RecvGoto
  <2>27. CASE RecvEof
    BY <2>27 DEF RecvEof, RecvAt, RecvGoto
  <2>28. CASE Dispatch
    <3>1. TypeLink'
      BY <2>28 DEF Dispatch, RecvAt, CountAsync
    <3>2. TypeReceiver'
      BY <2>28 DEF Dispatch, RecvAt, CountAsync
    <3>3. TypeCounters'
      BY <2>28 DEF Dispatch, RecvAt, CountAsync
    <3>4. TypeResults'
      <4>1. frame \in Frame
        BY <2>28 DEF Dispatch, RecvAt
      <4>2. CASE syncWaiting
        BY <2>28, <4>2 DEF Dispatch
      <4>3. CASE ~syncWaiting
        <5>1. PICK e \in Echoes : results' = Store(ResultKey(frame, e), frame)
          BY <2>28, <4>3 DEF Dispatch
        <5>2. ResultKey(frame, e) \in Nat \ {0}
          BY <4>1 DEF ResultKey, Frame
        <5> QED
          BY <4>1, <5>1, <5>2 DEF Store
      <4> QED
        BY <4>2, <4>3
    <3>5. TypeSlot'
      BY <2>28 DEF Dispatch, RecvAt, CountAsync
    <3>6. TypeThreads'
      BY <2>28 DEF Dispatch, RecvAt, CountAsync
    <3> QED
      BY <3>1, <3>2, <3>3, <3>4, <3>5, <3>6
  <2>29. CASE RecvExit
    BY <2>29 DEF RecvExit, RecvAt, RecvGoto, FailSlot
  <2>30. CASE RecvDone
    BY <2>30 DEF RecvDone, RecvAt, Stopped
  <2>31. CASE ServerReply
    BY <2>31 DEF ServerReply
  <2>32. CASE Lose
    BY <2>32 DEF Lose
  <2>33. CASE UNCHANGED vars
    BY <2>33
  <2>34. ASSUME NEW t \in Threads, Spawn(t) PROVE TypeOK'
    BY <2>34 DEF Spawn
  <2>35. ASSUME NEW t \in Threads, SpawnFails(t) PROVE TypeOK'
    BY <2>35 DEF SpawnFails
  <2> QED
    BY <2>1, <2>2, <2>3, <2>4, <2>5, <2>6, <2>7, <2>8, <2>9, <2>10, <2>11, <2>12,
       <2>13, <2>14, <2>15, <2>16, <2>17, <2>18, <2>19, <2>20, <2>21, <2>22,
       <2>23, <2>24, <2>25, <2>26, <2>27, <2>28, <2>29, <2>30, <2>31, <2>32,
       <2>33, <2>34, <2>35
    DEF Next, Call, Consume, Step, Receiver
<1>3. QED
  BY <1>1, <1>2, PTL DEF Spec

-----------------------------------------------------------------------------
(* Any number of threads inserting at once.  The order of the ids is not   *)
(* the order of the frames then, but a server that echoes the ids leaves   *)
(* no doubt; nobody calls sendRecv() meanwhile, which waits for the inserts *)
(* of one thread only.                                                     *)
Submitters == Echoes = {TRUE} /\ \A t \in Threads : "sync" \notin Ops[t]

SyncPcs == {"drain", "claim", "syncSend", "syncWait", "directSend", "directRecv"}

EchoInv ==
  /\ \A t \in Threads : pc[t] \notin SyncPcs
  /\ \A t \in Threads : pc[t] \in {"count", "send"} => arg[t] # 0
  /\ ~syncWaiting
  /\ recv = "got" => frame.id # 0
  /\ \A k \in 1 .. Len(toClient) : toClient[k].id # 0
  /\ \A k \in 1 .. Len(toServer) : toServer[k].id # 0
  /\ Correlated

(* The calls of the application keep it: only a batch with an id is sent.  *)
LEMMA EchoCalls ==
  ASSUME Submitters, TypeOK, EchoInv, NEW t \in Threads, Call(t) \/ Consume(t)
  PROVE  EchoInv'
<1> USE DEF EchoInv, SyncPcs, Correlated, At, Goto, SetArg, Calls, TypeOK,
            TypeThreads, TypeResults
<1>1. CASE InsertCall(t)
  BY <1>1 DEF InsertCall, link, counters, slot
<1>2. CASE SyncCall(t)
  BY <1>2 DEF SyncCall, Submitters
<1>3. CASE WaitAllCall(t)
  BY <1>3 DEF WaitAllCall, WaitAllPcs, shared, link, thread, counters, slot
<1>4. ASSUME NEW i \in Ids, WaitOneCall(t, i) PROVE EchoInv'
  BY <1>4 DEF WaitOneCall, WaitOnePcs, shared, link, thread, counters, slot
<1>5. ASSUME NEW n \in PendingArgs, SetMaxPending(t, n) PROVE EchoInv'
  BY <1>5 DEF SetMaxPending, link, thread, slot
<1>6. CASE CloseCall(t)
  BY <1>6 DEF CloseCall, link, slot
<1>7. ASSUME NEW i \in DOMAIN results, GetResult(t, i) PROVE EchoInv'
  BY <1>7 DEF GetResult, Without, link, thread, slot
<1> QED
  BY <1>1, <1>2, <1>3, <1>4, <1>5, <1>6, <1>7 DEF Call, Consume

(* So do the steps of the calls: what Transmit() appends has an id.        *)
LEMMA EchoTransmit ==
  ASSUME TypeOK, EchoInv, NEW m \in Frame, m.id # 0, Transmit(m)
  PROVE  /\ \A k \in 1 .. Len(toServer') : toServer'[k].id # 0
         /\ toClient' = toClient
BY DEF Transmit, EchoInv, TypeOK, TypeLink

(* Every step of a caller keeps the answers with their requests.             *)
LEMMA EchoSteps ==
  ASSUME Submitters, TypeOK, EchoInv, NEW t \in Threads, Step(t) \/ Timeout(t)
  PROVE  EchoInv'
<1> USE DEF EchoInv, SyncPcs, Correlated, At, Goto, SetArg, TypeOK, TypeThreads
<1>1. CASE Reserve(t)
  BY <1>1 DEF Reserve, Await, link, thread, slot
<1>2. CASE Alloc(t)
  BY <1>2 DEF Alloc, TypeCounters, link, thread, slot
<1>3. CASE Count(t)
  BY <1>3 DEF Count, link, thread, slot
<1>4. CASE InsertSend(t)
  <2>1. UNCHANGED <<arg, results, slot, thread>> /\ pc' = [pc EXCEPT ![t] = "idle"]
    BY <1>4 DEF InsertSend
  <2>2. CASE SendFails
    BY <2>1, <2>2 DEF SendFails, link, thread, slot
  <2>3. CASE Transmit([by |-> t, id |-> arg[t]])
    <3>1. [by |-> t, id |-> arg[t]] \in Frame /\ arg[t] # 0
      BY <1>4, FrameType DEF InsertSend
    <3>2. /\ \A k \in 1 .. Len(toServer') : toServer'[k].id # 0
          /\ toClient' = toClient
      BY <2>3, <3>1, EchoTransmit
    <3> QED
      BY <2>1, <3>2 DEF thread, slot
  <2> QED
    BY <1>4, <2>2, <2>3 DEF InsertSend
<1>5. CASE Wait(t)
  <2>1. UNCHANGED <<link, thread, results, slot, arg>>
    BY <1>5 DEF Wait, Await
  <2>2. pc' = pc \/ pc' = [pc EXCEPT ![t] = "idle"]
    BY <1>5, Zenon DEF Wait, Await, Goto
  <2> QED
    BY <2>1, <2>2 DEF link, thread, slot
<1>6. CASE Timeout(t)
  BY <1>6 DEF Timeout, link, thread, slot
<1>7. CASE CloseShut(t)
  BY <1>7 DEF CloseShut, Hangup, thread, slot
<1>8. CASE CloseJoin(t)
  BY <1>8 DEF CloseJoin, link, slot
<1>9. CASE CloseReset(t)
  BY <1>9 DEF CloseReset, FailSlot, Hangup, NoResults, thread
<1>10. CASE Handshake(t)
  BY <1>10 DEF Handshake, link, thread, slot
<1>11. pc[t] \notin SyncPcs
  OBVIOUS
<1>12. CASE Spawn(t)
  BY <1>12 DEF Spawn, link, slot
<1>13. CASE SpawnFails(t)
  BY <1>13 DEF SpawnFails, link, slot
<1> QED
  BY <1>1, <1>2, <1>3, <1>4, <1>5, <1>6, <1>7, <1>8, <1>9, <1>10, <1>11, <1>12,
     <1>13
     DEF Step, Drain, Claim, SyncSend, SyncWait, SyncTake, DirectSend, DirectRecv,
         Await

(* The receiver files an answer under the id it carries; the network moves *)
(* and drops frames, and changes none.                                     *)
LEMMA EchoReceiver ==
  ASSUME Submitters, TypeOK, EchoInv, Receiver \/ ServerReply \/ Lose
  PROVE  EchoInv'
<1> USE DEF EchoInv, SyncPcs, Correlated, RecvAt, RecvGoto, TypeOK, TypeLink
<1>1. CASE RecvCheck
  BY <1>1 DEF RecvCheck, LoopGoesOn, link, slot
<1>2. CASE RecvTimeout
  BY <1>2 DEF RecvTimeout, link, slot
<1>3. CASE RecvRead
  BY <1>3 DEF RecvRead, slot
<1>4. CASE RecvEof
  BY <1>4 DEF RecvEof, link, slot
<1>5. CASE Dispatch
  <2>1. results' = Store(frame.id, frame)
    <3>1. ResultKey(frame, TRUE) = frame.id
      BY <1>5 DEF Dispatch, ResultKey
    <3> QED
      BY <1>5, <3>1 DEF Dispatch, Submitters
  <2>2. \A i \in DOMAIN results' : results'[i].id = i
    BY <2>1 DEF Store
  <2> QED
    BY <1>5, <2>2 DEF Dispatch, link
<1>6. CASE RecvExit
  BY <1>6 DEF RecvExit, FailSlot, link
<1>7. CASE RecvDone
  BY <1>7 DEF RecvDone, link, slot
<1>8. CASE ServerReply
  BY <1>8 DEF ServerReply, thread, slot
<1>9. CASE Lose
  BY <1>9 DEF Lose, thread, slot
<1> QED
  BY <1>1, <1>2, <1>3, <1>4, <1>5, <1>6, <1>7, <1>8, <1>9 DEF Receiver

(* However many threads insert at once, reconnect and take results, with a *)
(* server that echoes batch ids every result is that of its own batch.     *)
THEOREM EchoedCorrelated == ASSUME Submitters PROVE Spec => []Correlated
<1>1. Init => EchoInv
  BY DEF Init, EchoInv, SyncPcs, Correlated
<1>2. TypeOK /\ EchoInv /\ [Next]_vars => EchoInv'
  <2> SUFFICES ASSUME TypeOK, EchoInv, [Next]_vars PROVE EchoInv'
    OBVIOUS
  <2>1. ASSUME NEW t \in Threads, Call(t) \/ Consume(t) \/ Step(t) \/ Timeout(t)
        PROVE  EchoInv'
    BY <2>1, EchoCalls, EchoSteps
  <2>2. CASE Receiver \/ ServerReply \/ Lose
    BY <2>2, EchoReceiver
  <2>3. CASE UNCHANGED vars
    BY <2>3 DEF vars, shared, link, thread, counters, slot, EchoInv, SyncPcs,
                Correlated
  <2> QED
    BY <2>1, <2>2, <2>3 DEF Next
<1>3. EchoInv => Correlated
  BY DEF EchoInv
<1> QED
  BY <1>1, <1>2, <1>3, TypeCorrect, PTL DEF Spec

-----------------------------------------------------------------------------
(* The wake-ups.  A step that leaves alone what a caller waits for neither *)
(* serves a sleeper nor sends an unserved caller to sleep.                 *)
LEMMA WakeSame ==
  ASSUME AnswersWake, asleep' \subseteq asleep,
         UNCHANGED <<received, consumed, maxPending, results, syncReady>>,
         \A t \in asleep' : pc'[t] = pc[t] /\ arg'[t] = arg[t]
  PROVE  AnswersWake'
BY DEF AnswersWake, Served, Ready

(* A caller only goes to sleep on a predicate that does not hold. *)
LEMMA WakeAwait ==
  ASSUME AnswersWake, TypeOK, NEW t \in Threads, NEW pred, NEW next,
         t \notin asleep, Await(t, pred, next), Served(t) => pred
  PROVE  AnswersWake'
<1> USE DEF Await, Goto, counters, slot, TypeOK, TypeThreads
<1>1. UNCHANGED <<received, consumed, maxPending, results, syncReady, arg>>
  OBVIOUS
<1>2. CASE pred /\ Goto(t, next) /\ UNCHANGED asleep
  BY <1>1, <1>2, WakeSame
<1>3. CASE ~pred /\ asleep' = asleep \cup {t} /\ UNCHANGED pc
  BY <1>1, <1>3 DEF AnswersWake, Served, Ready
<1> QED
  BY <1>2, <1>3

(* A step that empties the set of sleepers leaves nobody asleep. *)
LEMMA WakeAll == ASSUME NotifyAll PROVE AnswersWake'
BY DEF NotifyAll, AnswersWake

(* Every step of a caller keeps it: a wait tests before it sleeps, and     *)
(* what could serve a sleeper is followed by a notify_all.                 *)
LEMMA WakeCallers ==
  ASSUME AnswersWake, TypeOK, NEW t \in Threads,
         Call(t) \/ Consume(t) \/ Step(t) \/ Timeout(t)
  PROVE  AnswersWake'
<1> USE DEF At, Calls, Goto, SetArg, counters, slot, TypeOK, TypeThreads
<1>1. CASE InsertCall(t) \/ Spawn(t) \/ SpawnFails(t)
  BY <1>1, WakeSame DEF InsertCall, Spawn, SpawnFails
<1>2. CASE Reserve(t)
  BY <1>2, WakeAwait DEF Reserve, Served, WaitAllPcs, WaitOnePcs
<1>3. CASE Alloc(t) \/ Count(t) \/ InsertSend(t)
  BY <1>3, WakeSame DEF Alloc, Count, InsertSend
<1>4. CASE SyncCall(t) \/ WaitAllCall(t) \/ \E i \in Ids : WaitOneCall(t, i)
  <2>1. UNCHANGED <<received, consumed, maxPending, results, syncReady, asleep>>
    BY <1>4 DEF SyncCall, WaitAllCall, WaitOneCall, shared
  <2>2. t \notin asleep
    BY <1>4 DEF SyncCall, WaitAllCall, WaitOneCall
  <2>3. \A u \in Threads \ {t} : pc'[u] = pc[u] /\ arg'[u] = arg[u]
    BY <1>4 DEF SyncCall, WaitAllCall, WaitOneCall
  <2> QED
    BY <2>1, <2>2, <2>3, WakeSame
<1>5. CASE Drain(t)
  BY <1>5, WakeAwait DEF Drain, Served, Received, WaitAllPcs, WaitOnePcs
<1>6. CASE Claim(t)
  <2>1. t \notin asleep /\ pc[t] = "claim" /\ pc' = [pc EXCEPT ![t] = "syncSend"]
    BY <1>6 DEF Claim
  <2>2. UNCHANGED <<received, consumed, maxPending, results, asleep, arg>>
    BY <1>6 DEF Claim
  <2>3. ~syncReady'
    BY <1>6 DEF Claim
  <2> QED
    BY <2>1, <2>2, <2>3 DEF AnswersWake, Served, Ready
<1>7. CASE SyncSend(t) \/ DirectSend(t) \/ DirectRecv(t)
  BY <1>7, WakeSame DEF SyncSend, DirectSend, DirectRecv
<1>8. CASE SyncWait(t)
  <2>1. CASE SyncTake(t)
    BY <2>1, WakeSame DEF SyncTake
  <2>2. CASE At(t, "syncWait") /\ ~syncReady /\ running /\ Await(t, FALSE, "idle")
    BY <2>2, WakeAwait DEF Served, WaitAllPcs, WaitOnePcs
  <2> QED
    BY <1>8, <2>1, <2>2 DEF SyncWait
<1>9. CASE Wait(t)
  <2>1. ASSUME NEW p \in WaitAllPcs, At(t, p), Await(t, Received(t), "idle")
        PROVE  AnswersWake'
    BY <2>1, WakeAwait DEF Served, Received, WaitAllPcs, WaitOnePcs
  <2>2. ASSUME NEW p \in WaitOnePcs, At(t, p),
               Await(t, Ready(arg[t]) \/ ~running, "idle")
        PROVE  AnswersWake'
    BY <2>2, WakeAwait DEF Served, WaitAllPcs, WaitOnePcs
  <2> QED
    BY <1>9, <2>1, <2>2 DEF Wait
<1>10. CASE Timeout(t)
  BY <1>10, WakeSame DEF Timeout
<1>11. CASE \/ \E i \in DOMAIN results : GetResult(t, i)
            \/ \E n \in PendingArgs : SetMaxPending(t, n)
            \/ CloseReset(t)
  BY <1>11, WakeAll DEF GetResult, SetMaxPending, CloseReset
<1>12. CASE CloseCall(t)
  <2>1. t \notin asleep
    BY <1>12 DEF CloseCall
  <2>2. /\ UNCHANGED <<received, consumed, maxPending, results, syncReady, asleep>>
        /\ \A u \in Threads \ {t} : pc'[u] = pc[u] /\ arg'[u] = arg[u]
    BY <1>12 DEF CloseCall
  <2> QED
    BY <2>1, <2>2, WakeSame
<1>13. CASE CloseShut(t) \/ CloseJoin(t) \/ Handshake(t)
  BY <1>13, WakeSame DEF CloseShut, CloseJoin, Handshake
<1> QED
  BY <1>1, <1>2, <1>3, <1>4, <1>5, <1>6, <1>7, <1>8, <1>9, <1>10, <1>11, <1>12,
     <1>13 DEF Call, Consume, Step

(* Whatever the threads call and whoever of them closes, reconnects or     *)
(* runs out of time: no caller of the connection sleeps while what it      *)
(* waits for is there.                                                     *)
THEOREM NobodyOversleeps == Spec => []AnswersWake
<1>1. Init => AnswersWake
  BY DEF Init, AnswersWake
<1>2. AnswersWake /\ TypeOK /\ [Next]_vars => AnswersWake'
  <2> SUFFICES ASSUME AnswersWake, TypeOK, [Next]_vars PROVE AnswersWake'
    OBVIOUS
  <2>1. ASSUME NEW t \in Threads, Call(t) \/ Consume(t) \/ Step(t) \/ Timeout(t)
        PROVE  AnswersWake'
    BY <2>1, WakeCallers
  <2>2. CASE Dispatch \/ RecvExit
    BY <2>2, WakeAll DEF Dispatch, RecvExit
  <2>3. CASE RecvCheck \/ RecvTimeout \/ RecvRead \/ RecvEof \/ RecvDone
    BY <2>3, WakeSame
    DEF RecvCheck, RecvTimeout, RecvRead, RecvEof, RecvDone, RecvGoto, counters,
        slot
  <2>4. CASE ServerReply \/ Lose \/ UNCHANGED vars
    BY <2>4, WakeSame
    DEF ServerReply, Lose, vars, shared, link, thread, counters, slot
  <2> QED
    BY <2>1, <2>2, <2>3, <2>4 DEF Next, Receiver
<1> QED
  BY <1>1, <1>2, TypeCorrect, PTL DEF Spec

-----------------------------------------------------------------------------
(* One thread issues every request. *)

(* The number of frames on their way is a number. *)
LEMMA WayType ==
  ASSUME TypeOK
  PROVE  /\ Held \in {0, 1} /\ Len(toClient) \in Nat /\ Len(toServer) \in Nat
         /\ Way \in Nat
BY DEF TypeOK, TypeLink, Held, Way

(* A step that moves no frame and leaves the requester where it is, or     *)
(* between two places that say nothing of the wire.                        *)
LEMMA WireSame ==
  ASSUME NEW r \in Threads, InvWire(r), SyncOut(r)' = SyncOut(r),
         UNCHANGED <<toServer, toClient, frame, received>>,
         (recv = "got") = (recv' = "got")
  PROVE  InvWire(r)' /\ Way' = Way
BY DEF InvWire, Way, Held, SyncOut, Async, Sync

(* A step that changes no counter keeps the account of the frames, if the  *)
(* requester stays between the places that bear on it.                     *)
LEMMA CountSame ==
  ASSUME NEW r \in Threads, TypeOK, InvCount(r), Way' = Way, peer' => peer,
         UNCHANGED <<nextBatchId, sent, received>>,
         \/ pc'[r] = pc[r] /\ arg'[r] = arg[r]
         \/ Bystander(r) /\ Bystander(r)'
  PROVE  InvCount(r)'
BY WayType
DEF InvCount, Batch, SyncOut, Sending, Counting, Bystander, WaitAllPcs,
    WaitOnePcs

(* A step outside the requester's calls that moves no frame keeps all of   *)
(* it but the results.                                                     *)
LEMMA Quiet ==
  ASSUME NEW r \in Threads, TypeOK, SoleInv(r),
         UNCHANGED <<link, thread, nextBatchId, sent, received, slot, reply,
                     crashed>>,
         \/ pc'[r] = pc[r] /\ arg'[r] = arg[r]
         \/ Bystander(r) /\ Bystander(r)'
  PROVE  /\ InvLink' /\ InvReceiver(r)' /\ InvWire(r)' /\ InvCount(r)'
         /\ InvSlot(r)' /\ InvReply(r)'
<1> USE DEF SoleInv, link, thread, slot
<1>1. InvLink' /\ InvReceiver(r)' /\ InvReply(r)'
  BY DEF InvLink, InvReceiver, InvReply, Bystander, WaitAllPcs, WaitOnePcs,
         Started, Sync
<1>2. InvWire(r)' /\ Way' = Way
  BY WireSame DEF Bystander, SyncOut, WaitAllPcs, WaitOnePcs
<1>3. InvCount(r)'
  BY <1>2, CountSame
<1>4. InvSlot(r)'
  BY <1>2 DEF InvSlot, Bystander, Sync, WaitAllPcs, WaitOnePcs
<1> QED
  BY <1>1, <1>2, <1>3, <1>4

(* A number below the modulus is its own remainder. *)
LEMMA SmallMod ==
  ASSUME NEW a \in Nat, NEW b \in Nat, a < b PROVE a % b = a
OBVIOUS

(* Without a receiver, outside close() and a direct read, nothing is on    *)
(* its way.                                                                *)
LEMMA NoReceiver ==
  ASSUME NEW r \in Threads, TypeOK, InvLink, InvReceiver(r), ~running,
         pc[r] \notin {"shut", "join", "directRecv"}
  PROVE  Way = 0 /\ recv # "got"
<1>1. recv \in {"none", "done"}
  BY DEF TypeOK, TypeReceiver, RecvPcs, InvReceiver, Started
<1>2. toClient = <<>> /\ toServer = <<>>
  BY <1>1 DEF InvReceiver, InvLink
<1> QED
  BY <1>1, <1>2 DEF Way, Held

(* How the steps that move frames change their number. *)
LEMMA TransmitWay ==
  ASSUME TypeOK, NEW m \in Frame, Transmit(m), UNCHANGED recv
  PROVE  /\ UNCHANGED <<sock, peer, toClient>> /\ Held' = Held
         /\ peer => Way' = Way + 1 /\ toServer' = Append(toServer, m)
         /\ ~peer => Way' = Way /\ toServer' = toServer
<1>1. Held' = Held
  BY DEF Held
<1>2. CASE peer
  <2>1. toServer' = Append(toServer, m) /\ UNCHANGED <<sock, peer, toClient>>
    BY <1>2 DEF Transmit
  <2>2. Len(toServer') = Len(toServer) + 1
    BY <2>1 DEF TypeOK, TypeLink
  <2> QED
    BY <1>1, <1>2, <2>1, <2>2, WayType DEF Way
<1>3. CASE ~peer
  BY <1>1, <1>3 DEF Transmit, Way
<1> QED
  BY <1>2, <1>3

(* A frame read is the first of the channel and stays on its way. *)
LEMMA ReadWay ==
  ASSUME TypeOK, RecvRead
  PROVE  /\ Way' = Way /\ Held = 0 /\ Held' = 1
         /\ Len(toClient) > 0 /\ Len(toClient') = Len(toClient) - 1
         /\ frame' = toClient[1]
         /\ \A j \in 1 .. Len(toClient') : toClient'[j] = toClient[j + 1]
<1>1. /\ Len(toClient) > 0 /\ Len(toClient') = Len(toClient) - 1
      /\ frame' = toClient[1]
      /\ \A j \in 1 .. Len(toClient') : toClient'[j] = toClient[j + 1]
  BY DEF RecvRead, TypeOK, TypeLink
<1> QED
  BY <1>1, WayType DEF RecvRead, RecvAt, RecvGoto, Way, Held

(* A request answered moves from the end of one channel to that of the     *)
(* other.                                                                  *)
LEMMA ReplyWay ==
  ASSUME TypeOK, ServerReply
  PROVE  /\ Way' = Way /\ Held' = Held
         /\ Len(toServer) > 0 /\ Len(toServer') = Len(toServer) - 1
         /\ Len(toClient') = Len(toClient) + 1
         /\ \A j \in 1 .. Len(toClient) : toClient'[j] = toClient[j]
         /\ toClient'[Len(toClient) + 1] = toServer[1]
         /\ \A j \in 1 .. Len(toServer') : toServer'[j] = toServer[j + 1]
<1> USE DEF ServerReply, TypeOK, TypeLink
<1>1. /\ Len(toServer) > 0 /\ Len(toServer') = Len(toServer) - 1
      /\ \A j \in 1 .. Len(toServer') : toServer'[j] = toServer[j + 1]
  OBVIOUS
<1>2. /\ Len(toClient') = Len(toClient) + 1
      /\ \A j \in 1 .. Len(toClient) : toClient'[j] = toClient[j]
      /\ toClient'[Len(toClient) + 1] = toServer[1]
  OBVIOUS
<1>3. Held' = Held
  BY DEF Held, thread
<1> QED
  BY <1>1, <1>2, <1>3, WayType DEF Way

(* The frame handed out was the first of those on their way. *)
LEMMA DispatchWay ==
  ASSUME TypeOK, Dispatch
  PROVE  /\ Way > 0 /\ Way' = Way - 1 /\ Held = 1 /\ Held' = 0
         /\ UNCHANGED <<toClient, toServer>>
<1>1. recv = "got" /\ recv' = "check" /\ UNCHANGED <<toClient, toServer>>
  BY DEF Dispatch, RecvAt, link
<1> QED
  BY <1>1, WayType DEF Way, Held

-----------------------------------------------------------------------------
(* executeInsertAsync() called: only the requester does, and goes on to    *)
(* start the receiver when there is none.                                  *)
LEMMA SoleInsertCall ==
  ASSUME NEW r \in Threads, TypeOK, TypeOK', SoleInv(r), InsertCall(r)
  PROVE  SoleInv(r)'
<1> USE DEF SoleInv, At, Goto, Calls, link, counters, slot, TypeOK,
       TypeThreads, Pcs, WaitPcs, WaitAllPcs, WaitOnePcs
<1>1. (\A t \in Threads \ {r} : Bystander(t))' /\ InvLink' /\ InvReply(r)'
  BY DEF Bystander, InvLink, InvReply, InsertCall
<1>2. InvReceiver(r)'
  BY DEF InvReceiver, Started, TypeReceiver, RecvPcs, InsertCall
<1>3. InvWire(r)' /\ Way' = Way
  BY WireSame DEF SyncOut, InsertCall
<1>4. InvCount(r)'
  <2>1. pc[r] = "idle" /\ Inserting = {}
    BY DEF InsertCall, Inserting, Bystander
  <2>2. Cardinality(Inserting) = 0
    BY <2>1, FS_EmptySet
  <2> QED
    BY <1>3, <2>2
    DEF InvCount, Batch, SyncOut, Sending, Counting, TypeCounters, InsertCall
<1>5. InvSlot(r)'
  BY DEF InvSlot, InsertCall
<1>6. InvResults'
  BY DEF InvResults, InsertCall
<1> QED
  BY <1>1, <1>2, <1>3, <1>4, <1>5, <1>6

(* The receiver started, or not: over one that was never joined, the       *)
(* process is at its end.                                                  *)
LEMMA SoleSpawn ==
  ASSUME NEW r \in Threads, TypeOK, TypeOK', SoleInv(r),
         Spawn(r) \/ SpawnFails(r)
  PROVE  SoleInv(r)'
<1> USE DEF SoleInv, At, Goto, link, counters, slot, TypeOK, TypeThreads, Pcs,
       WaitPcs, WaitAllPcs, WaitOnePcs
<1>1. (\A t \in Threads \ {r} : Bystander(t))' /\ InvLink' /\ InvReply(r)'
  BY DEF Bystander, InvLink, InvReply, Spawn, SpawnFails
<1>2. InvReceiver(r)'
  BY DEF InvReceiver, Started, Spawn, SpawnFails
<1>3. recv # "got" /\ recv' # "got"
  BY DEF InvReceiver, Spawn, SpawnFails
<1>4. InvWire(r)' /\ Way' = Way
  BY <1>3, WireSame DEF SyncOut, Spawn, SpawnFails
<1>5. InvCount(r)'
  BY <1>4 DEF InvCount, Batch, SyncOut, Sending, Counting, Spawn, SpawnFails
<1>6. InvSlot(r)'
  BY DEF InvSlot, Spawn, SpawnFails
<1>7. InvResults'
  BY DEF InvResults, Spawn, SpawnFails
<1> QED
  BY <1>1, <1>2, <1>4, <1>5, <1>6, <1>7

(* The backpressure wait touches neither counters nor wire. *)
LEMMA SoleReserve ==
  ASSUME NEW r \in Threads, TypeOK, TypeOK', SoleInv(r), Reserve(r)
  PROVE  SoleInv(r)'
<1> USE DEF SoleInv, At, Goto, Await, link, thread, counters, slot, TypeOK,
       TypeThreads, Pcs, WaitPcs, WaitAllPcs, WaitOnePcs
<1>1. (\A t \in Threads \ {r} : Bystander(t))' /\ InvLink' /\ InvReply(r)'
  BY DEF Bystander, InvLink, InvReply, Reserve
<1>2. InvReceiver(r)'
  BY DEF InvReceiver, Reserve
<1>3. InvWire(r)' /\ Way' = Way
  BY WireSame DEF SyncOut, Reserve
<1>4. InvCount(r)'
  BY <1>3 DEF InvCount, Batch, SyncOut, Sending, Counting, Reserve
<1>5. InvSlot(r)'
  BY DEF InvSlot, Reserve
<1>6. InvResults'
  BY DEF InvResults, Reserve
<1> QED
  BY <1>1, <1>2, <1>3, <1>4, <1>5, <1>6

(* The batch id taken is the next one. *)
LEMMA SoleAlloc ==
  ASSUME NEW r \in Threads, TypeOK, TypeOK', SoleInv(r), Alloc(r)
  PROVE  SoleInv(r)'
<1> USE DEF SoleInv, At, Goto, SetArg, link, thread, slot, TypeOK, TypeThreads,
       Pcs, WaitPcs, WaitAllPcs, WaitOnePcs
<1>1. (\A t \in Threads \ {r} : Bystander(t))' /\ InvLink' /\ InvReply(r)'
  BY DEF Bystander, InvLink, InvReply, Alloc
<1>2. InvReceiver(r)'
  BY DEF InvReceiver, Alloc
<1>3. InvWire(r)' /\ Way' = Way
  BY WireSame DEF SyncOut, Alloc
<1>4. InvCount(r)'
  BY <1>3, WayType, AsyncAssumption
  DEF InvCount, Batch, SyncOut, Sending, Counting, TypeCounters, Alloc
<1>5. InvSlot(r)'
  BY DEF InvSlot, Alloc
<1>6. InvResults'
  BY DEF InvResults, Alloc
<1> QED
  BY <1>1, <1>2, <1>3, <1>4, <1>5, <1>6

(* The batch is counted as sent before its frame is on the wire. *)
LEMMA SoleCount ==
  ASSUME NEW r \in Threads, TypeOK, TypeOK', SoleInv(r), Count(r)
  PROVE  SoleInv(r)'
<1> USE DEF SoleInv, At, Goto, link, thread, slot, TypeOK, TypeThreads, Pcs,
       WaitPcs, WaitAllPcs, WaitOnePcs
<1>1. (\A t \in Threads \ {r} : Bystander(t))' /\ InvLink' /\ InvReply(r)'
  BY DEF Bystander, InvLink, InvReply, Count
<1>2. InvReceiver(r)'
  BY DEF InvReceiver, Count
<1>3. InvWire(r)' /\ Way' = Way
  BY WireSame DEF SyncOut, Count
<1>4. InvCount(r)'
  <2>1. sent + 1 \in Nat /\ MaxU64 + 1 \in Nat /\ sent + 1 < MaxU64 + 1
    BY AsyncAssumption DEF TypeCounters, InvCount, Counting
  <2>2. sent' = sent + 1
    BY <2>1 DEF Count
  <2> QED
    BY <1>3, <2>2, WayType
    DEF InvCount, Batch, SyncOut, Sending, Counting, TypeCounters, Count
<1>5. InvSlot(r)'
  BY DEF InvSlot, Count
<1>6. InvResults'
  BY DEF InvResults, Count
<1> QED
  BY <1>1, <1>2, <1>3, <1>4, <1>5, <1>6

(* The frame of the batch follows those on their way, or the batch is      *)
(* taken back.                                                             *)
LEMMA SoleInsertSend ==
  ASSUME NEW r \in Threads, TypeOK, TypeOK', SoleInv(r), InsertSend(r)
  PROVE  SoleInv(r)'
<1> USE DEF SoleInv, At, Goto, link, thread, slot, TypeOK, TypeThreads, Pcs,
       WaitPcs, WaitAllPcs, WaitOnePcs
<1>1. (\A t \in Threads \ {r} : Bystander(t))' /\ InvLink' /\ InvReply(r)'
  BY DEF Bystander, InvLink, InvReply, InsertSend, Transmit, SendFails
<1>2. InvReceiver(r)'
  BY DEF InvReceiver, InsertSend, Transmit, SendFails
<1>3. InvWire(r)'
  <2>1. CASE Transmit(Async(r, arg[r]))
    <3>1. CASE peer
      <4>1. arg[r] = received + Held + Len(toClient) + Len(toServer) + 1
        BY <3>1, WayType
        DEF InsertSend, InvCount, Batch, SyncOut, Sending, Counting, Way,
            TypeCounters
      <4>2. toServer' = Append(toServer, Async(r, arg[r])) /\ UNCHANGED toClient
        BY <2>1, <3>1 DEF Transmit
      <4>3. /\ Len(toServer') = Len(toServer) + 1
            /\ \A j \in 1 .. Len(toServer) : toServer'[j] = toServer[j]
            /\ toServer'[Len(toServer) + 1] = Async(r, arg[r])
        BY <4>2
      <4>4. ~SyncOut(r) /\ ~SyncOut(r)'
        BY DEF SyncOut, InsertSend
      <4>5. UNCHANGED <<recv, frame, received, Held>>
        BY DEF InsertSend, Held
      <4>6. \A j \in 1 .. Len(toServer') :
              toServer'[j] = Async(r, received + Held + Len(toClient) + j)
        <5> TAKE j \in 1 .. Len(toServer')
        <5>1. CASE j \in 1 .. Len(toServer)
          BY <4>3, <4>4, <5>1 DEF InvWire
        <5>2. CASE j = Len(toServer) + 1
          <6>1. arg[r] = received + Held + Len(toClient) + j
            <7>1. /\ received \in Nat /\ Held \in Nat
                  /\ Len(toClient) \in Nat /\ Len(toServer) \in Nat
              BY WayType DEF TypeCounters
            <7> QED
              BY ONLY <4>1, <5>2, <7>1
          <6> QED
            BY <4>3, <5>2, <6>1
        <5> QED
          BY <4>3, <5>1, <5>2
      <4> QED
        BY <4>2, <4>4, <4>5, <4>6 DEF InvWire
    <3>2. CASE ~peer
      BY <2>1, <3>2, WireSame DEF InsertSend, Transmit, SyncOut
    <3> QED
      BY <3>1, <3>2
  <2>2. CASE SendFails
    BY <2>2, WireSame DEF InsertSend, SendFails, SyncOut
  <2> QED
    BY <2>1, <2>2 DEF InsertSend, Async
<1>4. InvCount(r)'
  <2> USE WayType DEF InvCount, Batch, SyncOut, Sending, Counting, TypeCounters
  <2>1. CASE Transmit(Async(r, arg[r])) /\ UNCHANGED sent
    <3>1. Async(r, arg[r]) \in Frame
      BY DEF Async, Frame
    <3>2. UNCHANGED recv
      BY DEF InsertSend
    <3>3. UNCHANGED peer /\ Way' = IF peer THEN Way + 1 ELSE Way
      BY <2>1, <3>1, <3>2, TransmitWay
    <3> QED
      BY <2>1, <3>3 DEF InsertSend
  <2>2. CASE SendFails /\ sent' = Decrement(sent)
    <3>1. Way' = Way /\ ~peer' /\ sent' = sent - 1
      BY <2>2 DEF SendFails, Decrement, InsertSend, Way, Held, InvLink
    <3> QED
      BY <3>1 DEF InsertSend
  <2> QED
    BY <2>1, <2>2 DEF InsertSend, Async
<1>5. InvSlot(r)'
  BY DEF InvSlot, InsertSend
<1>6. InvResults'
  BY DEF InvResults, InsertSend
<1> QED
  BY <1>1, <1>2, <1>3, <1>4, <1>5, <1>6

(* sendRecv() called: with a receiver it first waits for the answers of    *)
(* what was sent.                                                          *)
LEMMA SoleSyncCall ==
  ASSUME NEW r \in Threads, TypeOK, TypeOK', SoleInv(r), SyncCall(r)
  PROVE  SoleInv(r)'
<1> USE DEF SoleInv, At, Goto, SetArg, Calls, link, thread, counters, slot,
       shared, TypeOK, TypeThreads, Pcs, WaitPcs, WaitAllPcs, WaitOnePcs
<1>1. (\A t \in Threads \ {r} : Bystander(t))' /\ InvLink' /\ InvReply(r)'
  BY DEF Bystander, InvLink, InvReply, SyncCall
<1>2. InvReceiver(r)'
  BY DEF InvReceiver, Started, TypeReceiver, RecvPcs, SyncCall
<1>3. InvWire(r)' /\ Way' = Way
  BY WireSame DEF SyncOut, SyncCall
<1>4. InvCount(r)'
  <2>1. ~running => Way = 0
    BY NoReceiver DEF SyncCall
  <2> QED
    BY <1>3, <2>1
    DEF InvCount, Batch, SyncOut, Sending, Counting, SyncCall, Target
<1>5. InvSlot(r)'
  BY DEF InvSlot, SyncCall
<1>6. InvResults'
  BY DEF InvResults, SyncCall
<1> QED
  BY <1>1, <1>2, <1>3, <1>4, <1>5, <1>6

(* Once they are in, nothing is on its way. *)
LEMMA SoleDrain ==
  ASSUME NEW r \in Threads, TypeOK, TypeOK', SoleInv(r), Drain(r)
  PROVE  SoleInv(r)'
<1> USE DEF SoleInv, At, Goto, Await, link, thread, counters, slot, TypeOK,
       TypeThreads, Pcs, WaitPcs, WaitAllPcs, WaitOnePcs
<1>1. (\A t \in Threads \ {r} : Bystander(t))' /\ InvLink' /\ InvReply(r)'
  BY DEF Bystander, InvLink, InvReply, Drain
<1>2. InvReceiver(r)'
  BY DEF InvReceiver, Drain
<1>3. InvWire(r)' /\ Way' = Way
  BY WireSame DEF SyncOut, Drain
<1>4. InvCount(r)'
  BY <1>3, WayType
  DEF InvCount, Batch, SyncOut, Sending, Counting, TypeCounters, Drain,
      Received
<1>5. InvSlot(r)'
  BY DEF InvSlot, Drain
<1>6. InvResults'
  BY DEF InvResults, Drain
<1> QED
  BY <1>1, <1>2, <1>3, <1>4, <1>5, <1>6

(* The sync slot is claimed with an empty wire. *)
LEMMA SoleClaim ==
  ASSUME NEW r \in Threads, TypeOK, TypeOK', SoleInv(r), Claim(r)
  PROVE  SoleInv(r)'
<1> USE DEF SoleInv, At, Goto, link, thread, counters, TypeOK, TypeThreads,
       Pcs, WaitPcs, WaitAllPcs, WaitOnePcs
<1>1. (\A t \in Threads \ {r} : Bystander(t))' /\ InvLink' /\ InvReply(r)'
  BY DEF Bystander, InvLink, InvReply, Claim
<1>2. InvReceiver(r)'
  BY DEF InvReceiver, Claim
<1>3. InvWire(r)' /\ Way' = Way
  BY WireSame DEF SyncOut, Claim
<1>4. InvCount(r)'
  BY <1>3 DEF InvCount, Batch, Sending, Counting, Claim
<1>5. InvSlot(r)'
  BY DEF InvSlot, Claim
<1>6. InvResults'
  BY DEF InvResults, Claim
<1> QED
  BY <1>1, <1>2, <1>3, <1>4, <1>5, <1>6

(* The synchronous request travels alone. *)
LEMMA SoleSyncSend ==
  ASSUME NEW r \in Threads, TypeOK, TypeOK', SoleInv(r), SyncSend(r)
  PROVE  SoleInv(r)'
<1> USE DEF SoleInv, At, Goto, link, thread, counters, TypeOK, TypeThreads,
       Pcs, WaitPcs, WaitAllPcs, WaitOnePcs
<1>1. (\A t \in Threads \ {r} : Bystander(t))' /\ InvLink' /\ InvReply(r)'
  BY DEF Bystander, InvLink, InvReply, SyncSend, Transmit, SendFails
<1>2. InvReceiver(r)'
  BY DEF InvReceiver, SyncSend, Transmit, SendFails
<1>3. InvWire(r)'
  BY DEF InvWire, SyncOut, Held, Way, Sync, InvCount, SyncSend, Transmit,
         SendFails
<1>4. InvCount(r)'
  <2>1. CASE Transmit(Sync(r)) /\ Goto(r, "syncWait")
    <3>1. Sync(r) \in Frame /\ UNCHANGED recv
      BY DEF Sync, Frame, SyncSend
    <3>2. UNCHANGED peer /\ (Way' = Way \/ Way' = Way + 1)
      BY <2>1, <3>1, TransmitWay
    <3> QED
      BY <2>1, <3>2 DEF InvCount, Batch, SyncOut, Sending, Counting, SyncSend
  <2>2. CASE SendFails /\ Goto(r, "idle")
    <3>1. Way' = Way
      BY <2>2 DEF SendFails, SyncSend, Way, Held
    <3> QED
      BY <2>2, <3>1 DEF InvCount, Batch, Sending, Counting, SyncSend, SendFails
  <2> QED
    BY <2>1, <2>2 DEF SyncSend, Sync
<1>5. InvSlot(r)'
  <2>1. CASE Transmit(Sync(r)) /\ pc'[r] = "syncWait" /\ UNCHANGED syncWaiting
    <3>1. Sync(r) \in Frame /\ UNCHANGED recv
      BY DEF Sync, Frame, SyncSend
    <3>2. ~peer => Way' = 0
      BY <2>1, <3>1, TransmitWay DEF InvCount, SyncSend
    <3> QED
      BY <2>1, <3>2 DEF InvSlot, SyncSend
  <2>2. CASE syncWaiting' = FALSE /\ pc'[r] = "idle"
    BY <2>2 DEF InvSlot
  <2> QED
    BY <2>1, <2>2 DEF SyncSend, Sync
<1>6. InvResults'
  BY DEF InvResults, SyncSend
<1> QED
  BY <1>1, <1>2, <1>3, <1>4, <1>5, <1>6

(* What the requester takes from its slot answers its own request. *)
LEMMA SoleSyncWait ==
  ASSUME NEW r \in Threads, TypeOK, TypeOK', SoleInv(r), SyncWait(r)
  PROVE  SoleInv(r)'
<1> USE DEF SoleInv, At, Goto, Await, link, thread, counters, slot, TypeOK,
       TypeThreads, Pcs, WaitPcs, WaitAllPcs, WaitOnePcs
<1>1. (\A t \in Threads \ {r} : Bystander(t))' /\ InvLink' /\ InvReply(r)'
  <2>1. CASE SyncTake(r)
    <3>1. reply'[r] \in {Nothing, Sync(r)} /\ \A t \in Threads \ {r} : reply'[t] = reply[t]
      BY <2>1 DEF SyncTake, InvSlot
    <3> QED
      BY <2>1, <3>1 DEF SyncTake, Bystander, InvLink, InvReply
  <2>2. CASE Await(r, FALSE, "idle")
    BY <2>2 DEF Bystander, InvLink, InvReply
  <2> QED
    BY <2>1, <2>2 DEF SyncWait
<1>2. InvReceiver(r)'
  BY DEF InvReceiver, SyncWait, SyncTake
<1>3. InvWire(r)' /\ Way' = Way
  <2>1. CASE SyncTake(r)
    <3>1. Way = 0
      BY <2>1, NoReceiver DEF SyncTake, InvSlot
    <3>2. Len(toClient) = 0 /\ Len(toServer) = 0 /\ Held = 0
      BY <3>1, WayType DEF Way
    <3> QED
      BY <2>1, <3>2 DEF InvWire, Way, Held, SyncTake
  <2>2. CASE Await(r, FALSE, "idle")
    BY <2>2, WireSame DEF SyncOut
  <2> QED
    BY <2>1, <2>2 DEF SyncWait
<1>4. InvCount(r)'
  <2>1. CASE SyncTake(r)
    <3>1. Way = 0
      BY <2>1, NoReceiver DEF SyncTake, InvSlot
    <3> QED
      BY <2>1, <1>3, <3>1 DEF InvCount, Batch, Sending, Counting, SyncTake
  <2>2. CASE Await(r, FALSE, "idle")
    BY <2>2, <1>3, CountSame
  <2> QED
    BY <2>1, <2>2 DEF SyncWait
<1>5. InvSlot(r)'
  BY DEF InvSlot, SyncWait, SyncTake
<1>6. InvResults'
  BY DEF InvResults, SyncWait, SyncTake
<1> QED
  BY <1>1, <1>2, <1>3, <1>4, <1>5, <1>6

(* Without a receiver the request goes out on an empty wire. *)
LEMMA SoleDirectSend ==
  ASSUME NEW r \in Threads, TypeOK, TypeOK', SoleInv(r), DirectSend(r)
  PROVE  SoleInv(r)'
<1> USE DEF SoleInv, At, Goto, link, thread, counters, slot, TypeOK,
       TypeThreads, Pcs, WaitPcs, WaitAllPcs, WaitOnePcs
<1>1. (\A t \in Threads \ {r} : Bystander(t))' /\ InvLink' /\ InvReply(r)'
  BY DEF Bystander, InvLink, InvReply, DirectSend, Transmit, SendFails
<1>2. InvReceiver(r)'
  BY DEF InvReceiver, DirectSend, Transmit, SendFails
<1>3. InvWire(r)'
  BY DEF InvWire, SyncOut, Held, Way, Sync, InvCount, DirectSend, Transmit,
         SendFails
<1>4. InvCount(r)'
  <2>1. CASE Transmit(Sync(r)) /\ Goto(r, "directRecv")
    <3>1. Sync(r) \in Frame /\ UNCHANGED recv
      BY DEF Sync, Frame, DirectSend
    <3>2. UNCHANGED peer /\ (Way' = Way \/ Way' = Way + 1)
      BY <2>1, <3>1, TransmitWay
    <3> QED
      BY <2>1, <3>2 DEF InvCount, Batch, SyncOut, Sending, Counting, DirectSend
  <2>2. CASE SendFails /\ Goto(r, "idle")
    <3>1. Way' = Way
      BY <2>2 DEF SendFails, DirectSend, Way, Held
    <3> QED
      BY <2>2, <3>1
      DEF InvCount, Batch, Sending, Counting, DirectSend, SendFails
  <2> QED
    BY <2>1, <2>2 DEF DirectSend, Sync
<1>5. InvSlot(r)'
  BY DEF InvSlot, DirectSend
<1>6. InvResults'
  BY DEF InvResults, DirectSend
<1> QED
  BY <1>1, <1>2, <1>3, <1>4, <1>5, <1>6

(* and the caller reads its answer itself. *)
LEMMA SoleDirectRecv ==
  ASSUME NEW r \in Threads, TypeOK, TypeOK', SoleInv(r), DirectRecv(r)
  PROVE  SoleInv(r)'
<1> USE DEF SoleInv, At, Goto, thread, counters, slot, TypeOK, TypeThreads,
       Pcs, WaitPcs, WaitAllPcs, WaitOnePcs
<1>1. (\A t \in Threads \ {r} : Bystander(t))' /\ InvLink' /\ InvReply(r)'
  <2>1. reply'[r] \in {Nothing, reply[r], Sync(r)} /\ \A t \in Threads \ {r} : reply'[t] = reply[t]
    <3>1. toClient # <<>> => Head(toClient) = Sync(r)
      BY DEF InvWire, SyncOut, DirectRecv
    <3> QED
      BY <3>1 DEF DirectRecv
  <2> QED
    BY <2>1 DEF Bystander, InvLink, InvReply, DirectRecv
<1>2. InvReceiver(r)'
  <2>1. recv = "none" => toClient' = <<>> /\ toServer' = <<>>
    BY DEF DirectRecv, InvLink, InvWire, SyncOut, Way, Held
  <2> QED
    BY <2>1 DEF InvReceiver, DirectRecv
<1>3. InvWire(r)'
  BY DEF InvWire, SyncOut, Held, Way, InvReceiver, InvLink, DirectRecv
<1>4. InvCount(r)'
  <2>1. Way' = 0
    BY DEF DirectRecv, InvReceiver, InvLink, InvWire, SyncOut, Way, Held
  <2> QED
    BY <2>1 DEF InvCount, Batch, SyncOut, Sending, Counting, DirectRecv
<1>5. InvSlot(r)'
  BY DEF InvSlot, DirectRecv
<1>6. InvResults'
  BY DEF InvResults, DirectRecv
<1> QED
  BY <1>1, <1>2, <1>3, <1>4, <1>5, <1>6

(* close() first stops the receiver. *)
LEMMA SoleCloseCall ==
  ASSUME NEW r \in Threads, TypeOK, TypeOK', SoleInv(r), CloseCall(r)
  PROVE  SoleInv(r)'
<1> USE DEF SoleInv, At, Goto, SetArg, Calls, link, counters, slot, TypeOK,
       TypeThreads, Pcs, WaitPcs, WaitAllPcs, WaitOnePcs
<1>1. (\A t \in Threads \ {r} : Bystander(t))' /\ InvLink' /\ InvReply(r)'
  BY DEF Bystander, InvLink, InvReply, CloseCall
<1>2. InvReceiver(r)'
  BY DEF InvReceiver, CloseCall
<1>3. InvWire(r)' /\ Way' = Way
  BY WireSame DEF SyncOut, CloseCall
<1>4. InvCount(r)'
  BY <1>3 DEF InvCount, Batch, SyncOut, Sending, Counting, CloseCall
<1>5. InvSlot(r)'
  BY DEF InvSlot, CloseCall
<1>6. InvResults'
  BY DEF InvResults, CloseCall
<1> QED
  BY <1>1, <1>2, <1>3, <1>4, <1>5, <1>6

(* It shuts the socket down: what was on its way is lost. *)
LEMMA SoleCloseShut ==
  ASSUME NEW r \in Threads, TypeOK, TypeOK', SoleInv(r), CloseShut(r)
  PROVE  SoleInv(r)'
<1> USE DEF SoleInv, At, Goto, thread, counters, slot, TypeOK, TypeThreads,
       Pcs, WaitPcs, WaitAllPcs, WaitOnePcs
<1>1. (\A t \in Threads \ {r} : Bystander(t))' /\ InvLink' /\ InvReply(r)'
  BY DEF Bystander, InvLink, InvReply, CloseShut, Hangup
<1>2. InvReceiver(r)'
  BY DEF InvReceiver, CloseShut, Hangup
<1>3. InvWire(r)'
  BY DEF InvWire, SyncOut, CloseShut, Hangup
<1>4. InvCount(r)'
  BY DEF InvCount, Batch, SyncOut, Sending, Counting, Held, Way, TypeCounters,
         CloseShut, Hangup
<1>5. InvSlot(r)'
  BY DEF InvSlot, CloseShut
<1>6. InvResults'
  BY DEF InvResults, CloseShut
<1> QED
  BY <1>1, <1>2, <1>3, <1>4, <1>5, <1>6

(* It waits for the receiver to leave. *)
LEMMA SoleCloseJoin ==
  ASSUME NEW r \in Threads, TypeOK, TypeOK', SoleInv(r), CloseJoin(r)
  PROVE  SoleInv(r)'
<1> USE DEF SoleInv, At, Goto, link, counters, slot, TypeOK, TypeThreads, Pcs,
       WaitPcs, WaitAllPcs, WaitOnePcs
<1>1. (\A t \in Threads \ {r} : Bystander(t))' /\ InvLink' /\ InvReply(r)'
  BY DEF Bystander, InvLink, InvReply, CloseJoin
<1>2. InvReceiver(r)'
  BY DEF InvReceiver, InvLink, Started, CloseJoin
<1>3. InvWire(r)' /\ Way' = Way
  BY WireSame DEF SyncOut, CloseJoin
<1>4. InvCount(r)'
  BY <1>3 DEF InvCount, Batch, SyncOut, Sending, Counting, CloseJoin
<1>5. InvSlot(r)'
  BY DEF InvSlot, CloseJoin
<1>6. InvResults'
  BY DEF InvResults, CloseJoin
<1> QED
  BY <1>1, <1>2, <1>3, <1>4, <1>5, <1>6

(* It empties the counters, the results and the sync slot. *)
LEMMA SoleCloseReset ==
  ASSUME NEW r \in Threads, TypeOK, TypeOK', SoleInv(r), CloseReset(r)
  PROVE  SoleInv(r)'
<1> USE DEF SoleInv, At, Goto, thread, TypeOK, TypeThreads, Pcs, WaitPcs,
       WaitAllPcs, WaitOnePcs
<1>1. (\A t \in Threads \ {r} : Bystander(t))' /\ InvLink' /\ InvReply(r)'
  BY DEF Bystander, InvLink, InvReply, CloseReset, Hangup
<1>2. InvReceiver(r)'
  BY DEF InvReceiver, CloseReset, Hangup
<1>3. InvWire(r)'
  BY DEF InvWire, Held, Way, InvReceiver, CloseReset, Hangup
<1>4. InvCount(r)'
  <2>1. Way' = 0
    BY DEF CloseReset, Hangup, InvReceiver, Way, Held
  <2> QED
    BY <2>1, AsyncAssumption
    DEF InvCount, Batch, Sending, Counting, CloseReset, FirstId
<1>5. InvSlot(r)'
  BY DEF InvSlot, CloseReset, FailSlot
<1>6. InvResults'
  <2>1. DOMAIN results' = {}
    BY DEF CloseReset, NoResults
  <2> QED
    BY <2>1, FS_EmptySet DEF InvResults, CloseReset
<1> QED
  BY <1>1, <1>2, <1>3, <1>4, <1>5, <1>6

(* connect() opens an empty connection, with ids from 1 on. *)
LEMMA SoleHandshake ==
  ASSUME NEW r \in Threads, TypeOK, TypeOK', SoleInv(r), Handshake(r)
  PROVE  SoleInv(r)'
<1> USE DEF SoleInv, At, Goto, link, thread, counters, slot, TypeOK,
       TypeThreads, Pcs, WaitPcs, WaitAllPcs, WaitOnePcs
<1>1. (\A t \in Threads \ {r} : Bystander(t))' /\ InvLink' /\ InvReply(r)'
  BY DEF Bystander, InvLink, InvReply, Handshake
<1>2. InvReceiver(r)'
  BY DEF InvReceiver, Handshake
<1>3. InvWire(r)'
  BY DEF InvWire, Held, Way, InvReceiver, Handshake
<1>4. InvCount(r)'
  BY DEF InvCount, Batch, SyncOut, Sending, Counting, Held, Way, TypeCounters,
         Handshake
<1>5. InvSlot(r)'
  BY DEF InvSlot, Handshake
<1>6. InvResults'
  BY DEF InvResults, Handshake
<1> QED
  BY <1>1, <1>2, <1>3, <1>4, <1>5, <1>6

(* The receiver looks at _recvRunning. *)
LEMMA SoleRecvCheck ==
  ASSUME NEW r \in Threads, TypeOK, TypeOK', SoleInv(r), RecvCheck
  PROVE  SoleInv(r)'
<1> USE DEF SoleInv, link, counters, slot, TypeOK, TypeThreads, Pcs, WaitPcs,
       WaitAllPcs, WaitOnePcs
<1>1. (\A t \in Threads \ {r} : Bystander(t))' /\ InvLink' /\ InvReply(r)'
  BY DEF Bystander, InvLink, InvReply, RecvCheck, RecvGoto
<1>2. InvReceiver(r)'
  BY DEF InvReceiver, Started, RecvCheck, RecvAt, RecvGoto, LoopGoesOn
<1>3. InvWire(r)' /\ Way' = Way
  BY WireSame DEF SyncOut, RecvCheck, RecvAt, RecvGoto
<1>4. InvCount(r)'
  BY <1>3 DEF InvCount, Batch, SyncOut, Sending, Counting, RecvCheck, RecvGoto
<1>5. InvSlot(r)'
  BY <1>3 DEF InvSlot, RecvCheck, RecvGoto
<1>6. InvResults'
  BY DEF InvResults, RecvCheck, RecvGoto
<1> QED
  BY <1>1, <1>2, <1>3, <1>4, <1>5, <1>6

(* select() runs out without an answer. *)
LEMMA SoleRecvTimeout ==
  ASSUME NEW r \in Threads, TypeOK, TypeOK', SoleInv(r), RecvTimeout
  PROVE  SoleInv(r)'
<1> USE DEF SoleInv, link, counters, slot, TypeOK, TypeThreads, Pcs, WaitPcs,
       WaitAllPcs, WaitOnePcs
<1>1. (\A t \in Threads \ {r} : Bystander(t))' /\ InvLink' /\ InvReply(r)'
  BY SMTT(10)
  DEF Bystander, InvLink, InvReply, Sync, RecvTimeout, RecvAt, RecvGoto
<1>2. InvReceiver(r)'
  BY SMTT(10)
  DEF InvReceiver, InvLink, Started, TypeReceiver, RecvPcs, RecvTimeout,
      RecvAt, RecvGoto
<1>3. InvWire(r)' /\ Way' = Way
  BY SMTT(10), WireSame DEF SyncOut, RecvTimeout, RecvAt, RecvGoto
<1>4. InvCount(r)'
  BY SMTT(10), <1>3, WayType, AsyncAssumption
  DEF AsyncAssumption, InvCount, Batch, SyncOut, Sending, Counting,
      TypeCounters, RecvTimeout, RecvAt, RecvGoto
<1>5. InvSlot(r)'
  BY SMTT(10), <1>3, WayType DEF InvSlot, Sync, RecvTimeout, RecvAt, RecvGoto
<1>6. InvResults'
  BY SMTT(10) DEF InvResults, RecvTimeout, RecvAt, RecvGoto
<1> QED
  BY <1>1, <1>2, <1>3, <1>4, <1>5, <1>6

(* The receiver takes the first frame off the channel. *)
LEMMA SoleRecvRead ==
  ASSUME NEW r \in Threads, TypeOK, TypeOK', SoleInv(r), RecvRead
  PROVE  SoleInv(r)'
<1> USE DEF SoleInv, counters, slot, TypeOK, TypeThreads, Pcs, WaitPcs,
       WaitAllPcs, WaitOnePcs
<1>1. (\A t \in Threads \ {r} : Bystander(t))' /\ InvLink' /\ InvReply(r)'
  BY SMTT(10)
  DEF Bystander, InvLink, InvReply, Sync, RecvRead, RecvAt, RecvGoto
<1>2. InvReceiver(r)'
  <2>1. /\ recv = "select" /\ recv' = "got" /\ sock /\ toClient # <<>>
        /\ UNCHANGED <<sock, peer, toServer, running, pc, crashed>>
    BY DEF RecvRead, RecvAt, RecvGoto
  <2>2. recv' \notin {"none", "done", "exit", "notified"} /\ {recv, recv'} \subseteq Started
    BY <2>1 DEF Started
  <2> QED
    BY ONLY <2>1, <2>2, InvReceiver(r) DEF InvReceiver
<1>3. InvWire(r)'
  <2>1. /\ UNCHANGED <<pc, received, toServer>> /\ recv # "got" /\ recv' = "got"
        /\ SyncOut(r)' = SyncOut(r)
    BY DEF RecvRead, RecvAt, RecvGoto, SyncOut
  <2>2. CASE SyncOut(r)
    BY <2>1, <2>2, ReadWay, WayType DEF InvWire
  <2>3. CASE ~SyncOut(r)
    <3>1. received \in Nat /\ Len(toClient) \in Nat
      BY WayType DEF TypeCounters
    <3>2. /\ \A j \in 1 .. Len(toClient) :
              toClient[j] = Async(r, received + Held + j)
          /\ \A j \in 1 .. Len(toServer) :
              toServer[j] = Async(r, received + Held + Len(toClient) + j)
      BY <2>3 DEF InvWire
    <3>3. /\ Held = 0 /\ Len(toClient) > 0 /\ Len(toClient') = Len(toClient) - 1
          /\ frame' = toClient[1]
          /\ \A j \in 1 .. Len(toClient') : toClient'[j] = toClient[j + 1]
      BY ReadWay
    <3>4. frame' = Async(r, received + 1)
      <4>1. 1 \in 1 .. Len(toClient) /\ received + Held + 1 = received + 1
        BY ONLY <3>1, <3>3
      <4> QED
        BY ONLY <3>2, <3>3, <4>1
    <3>5. ASSUME NEW j \in 1 .. Len(toClient')
          PROVE  toClient'[j] = Async(r, received + 1 + j)
      <4>1. j + 1 \in 1 .. Len(toClient) /\ received + Held + (j + 1) = received + 1 + j
        BY ONLY <3>1, <3>3, j \in 1 .. Len(toClient')
      <4>2. toClient[j + 1] = Async(r, received + Held + (j + 1))
        BY ONLY <3>2, <4>1
      <4> QED
        BY ONLY <3>3, <4>1, <4>2, j \in 1 .. Len(toClient')
    <3>6. ASSUME NEW j \in 1 .. Len(toServer)
          PROVE  toServer[j] = Async(r, received + 1 + Len(toClient') + j)
      <4>1. received + Held + Len(toClient) + j = received + 1 + Len(toClient') + j
        BY ONLY <3>1, <3>3, j \in 1 .. Len(toServer), WayType, TypeOK
      <4> QED
        BY ONLY <3>2, <4>1, j \in 1 .. Len(toServer)
    <3> QED
      BY <2>1, <2>3, <3>4, <3>5, <3>6, ReadWay DEF InvWire
  <2> QED
    BY <2>2, <2>3
<1>4. InvCount(r)'
  BY ReadWay, WayType
  DEF InvCount, Batch, SyncOut, Sending, Counting, TypeCounters, RecvRead,
      RecvAt, RecvGoto
<1>5. InvSlot(r)'
  BY ReadWay DEF InvSlot, RecvRead, RecvAt, RecvGoto, Sync
<1>6. InvResults'
  BY SMTT(10) DEF InvResults, RecvRead, RecvAt, RecvGoto
<1> QED
  BY <1>1, <1>2, <1>3, <1>4, <1>5, <1>6

(* The receiver finds the connection closed. *)
LEMMA SoleRecvEof ==
  ASSUME NEW r \in Threads, TypeOK, TypeOK', SoleInv(r), RecvEof
  PROVE  SoleInv(r)'
<1> USE DEF SoleInv, link, counters, slot, TypeOK, TypeThreads, Pcs, WaitPcs,
       WaitAllPcs, WaitOnePcs
<1>1. (\A t \in Threads \ {r} : Bystander(t))' /\ InvLink' /\ InvReply(r)'
  BY SMTT(10)
  DEF Bystander, InvLink, InvReply, Sync, RecvEof, RecvAt, RecvGoto, Eof
<1>2. InvReceiver(r)'
  BY SMTT(10)
  DEF InvReceiver, InvLink, Started, TypeReceiver, RecvPcs, RecvEof, RecvAt,
      RecvGoto, Eof
<1>3. InvWire(r)' /\ Way' = Way
  BY SMTT(10), WireSame DEF SyncOut, RecvEof, RecvAt, RecvGoto, Eof
<1>4. InvCount(r)'
  BY SMTT(10), <1>3, WayType, AsyncAssumption
  DEF AsyncAssumption, InvCount, Batch, SyncOut, Sending, Counting,
      TypeCounters, RecvEof, RecvAt, RecvGoto, Eof
<1>5. InvSlot(r)'
  BY SMTT(10), <1>3, WayType DEF InvSlot, Sync, RecvEof, RecvAt, RecvGoto, Eof
<1>6. InvResults'
  BY SMTT(10) DEF InvResults, RecvEof, RecvAt, RecvGoto, Eof
<1> QED
  BY <1>1, <1>2, <1>3, <1>4, <1>5, <1>6

(* The frame read fills the sync slot of the waiting requester or becomes  *)
(* the result of the batch it carries the id of.                           *)
LEMMA SoleDispatch ==
  ASSUME NEW r \in Threads, TypeOK, TypeOK', SoleInv(r), Dispatch
  PROVE  SoleInv(r)'
<1> USE DEF SoleInv, link, TypeOK, TypeThreads, Pcs, WaitPcs, WaitAllPcs,
       WaitOnePcs
<1>0. (syncWaiting <=> pc[r] = "syncWait") /\ pc[r] # "directRecv"
  <2>1. Way > 0
    BY DispatchWay
  <2>2. recv = "got"
    BY DEF Dispatch, RecvAt
  <2> QED
    BY <2>1, <2>2 DEF InvSlot, InvCount, InvReceiver
<1>1. (\A t \in Threads \ {r} : Bystander(t))' /\ InvLink' /\ InvReply(r)'
  BY SMTT(10)
  DEF Bystander, InvLink, InvReply, Sync, Dispatch, RecvAt, CountAsync,
      ResultKey, Store, NotifyAll
<1>2. InvReceiver(r)'
  BY DEF InvReceiver, InvLink, Started, TypeReceiver, RecvPcs, Dispatch, RecvAt
<1>3. InvWire(r)'
  <2>0. /\ Way > 0 /\ Way' = Way - 1 /\ Held = 1 /\ Held' = 0
        /\ UNCHANGED <<toClient, toServer>>
    BY DispatchWay
  <2>1. CASE pc[r] = "syncWait"
    <3>1. Way' = 0 /\ Len(toClient) = 0 /\ Len(toServer) = 0
      BY <2>1, <2>0, WayType DEF InvWire, SyncOut, Way
    <3> QED
      BY <2>1, <2>0, <3>1 DEF InvWire, SyncOut, Dispatch
  <2>2. CASE pc[r] # "syncWait"
    <3>1. ~SyncOut(r) /\ ~SyncOut(r)' /\ received' = received + 1
      BY <2>2, <1>0 DEF SyncOut, Dispatch, CountAsync
    <3> QED
      BY <2>0, <3>1, WayType DEF InvWire, Dispatch, TypeCounters
  <2> QED
    BY <2>1, <2>2
<1>4. InvCount(r)'
  <2>1. Way > 0 /\ Way' = Way - 1
    BY DispatchWay
  <2>2. CASE pc[r] = "syncWait"
    <3>1. Batch(r) = 0 /\ Batch(r)' = 0 /\ received' = received
      BY <1>0, <2>2 DEF Batch, SyncOut, Dispatch, CountAsync
    <3> QED
      BY <2>2, <3>1 DEF InvCount, Sending, Counting, Dispatch
  <2>3. CASE pc[r] # "syncWait"
    <3>1. Batch(r) = Way /\ Batch(r)' = Way - 1 /\ received' = received + 1
      BY <1>0, <2>1, <2>3 DEF Batch, SyncOut, Dispatch, CountAsync
    <3> QED
      BY <2>1, <2>3, <3>1, WayType
      DEF InvCount, Sending, Counting, TypeCounters, Dispatch
  <2> QED
    BY <2>2, <2>3
<1>5. InvSlot(r)'
  <2>1. syncWaiting => frame = Sync(r) /\ Way' = 0
    <3>1. Way > 0 /\ Way' = Way - 1
      BY DispatchWay
    <3> QED
      BY <1>0, <3>1, WayType DEF InvWire, SyncOut, Dispatch, RecvAt
  <2> QED
    BY <1>0, <2>1 DEF InvSlot, Dispatch, Sync
<1>6. InvResults'
  <2>1. CASE syncWaiting
    BY <2>1 DEF InvResults, Dispatch, CountAsync
  <2>2. CASE ~syncWaiting
    <3>1. frame = Async(r, received + 1)
      BY <2>2 DEF InvWire, InvSlot, InvReceiver, SyncOut, Dispatch, RecvAt
    <3>2. PICK e \in Echoes : results' = Store(ResultKey(frame, e), frame)
      BY <2>2 DEF Dispatch
    <3>3. ResultKey(frame, e) = received + 1
      BY <3>1 DEF ResultKey, Async
    <3>4. /\ DOMAIN results' = DOMAIN results \cup {received + 1}
          /\ results'[received + 1] = frame
          /\ \A i \in DOMAIN results \ {received + 1} : results'[i] = results[i]
      BY <3>2, <3>3 DEF Store
    <3>5. received + 1 \notin DOMAIN results
      BY DEF InvResults, TypeCounters
    <3>6. IsFiniteSet(DOMAIN results) /\ Cardinality(DOMAIN results) \in Nat
      BY FS_CardinalityType DEF InvResults
    <3>7. /\ IsFiniteSet(DOMAIN results')
          /\ Cardinality(DOMAIN results') = Cardinality(DOMAIN results) + 1
      BY <3>4, <3>5, <3>6, FS_AddElement
    <3>8. received' = received + 1 /\ consumed' = consumed
      BY <2>2 DEF Dispatch, CountAsync
    <3>9. \A i \in DOMAIN results' : i <= received' /\ results'[i].id = i
      BY <3>1, <3>4, <3>8 DEF InvResults, Async, TypeResults, TypeCounters
    <3> QED
      BY <3>6, <3>7, <3>8, <3>9 DEF InvResults, TypeCounters
  <2> QED
    BY <2>1, <2>2
<1> QED
  BY <1>1, <1>2, <1>3, <1>4, <1>5, <1>6

(* A waiting synchronous call is failed when the receiver leaves. *)
LEMMA SoleRecvExit ==
  ASSUME NEW r \in Threads, TypeOK, TypeOK', SoleInv(r), RecvExit
  PROVE  SoleInv(r)'
<1> USE DEF SoleInv, link, counters, TypeOK, TypeThreads, Pcs, WaitPcs,
       WaitAllPcs, WaitOnePcs
<1>1. (\A t \in Threads \ {r} : Bystander(t))' /\ InvLink' /\ InvReply(r)'
  BY SMTT(10)
  DEF Bystander, InvLink, InvReply, Sync, RecvExit, RecvAt, RecvGoto, FailSlot,
      NotifyAll
<1>2. InvReceiver(r)'
  BY SMTT(10)
  DEF InvReceiver, InvLink, Started, TypeReceiver, RecvPcs, RecvExit, RecvAt,
      RecvGoto, FailSlot, NotifyAll
<1>3. InvWire(r)' /\ Way' = Way
  BY SMTT(10), WireSame
  DEF SyncOut, RecvExit, RecvAt, RecvGoto, FailSlot, NotifyAll
<1>4. InvCount(r)'
  BY SMTT(10), <1>3, WayType, AsyncAssumption
  DEF AsyncAssumption, InvCount, Batch, SyncOut, Sending, Counting,
      TypeCounters, RecvExit, RecvAt, RecvGoto, FailSlot, NotifyAll
<1>5. InvSlot(r)'
  <2>1. ASSUME syncWaiting PROVE ~peer /\ Way = 0
    <3>1. recv = "exit" /\ ~peer /\ toClient = <<>> /\ toServer = <<>>
      BY <2>1 DEF InvSlot, InvReceiver, InvLink, RecvExit, RecvAt
    <3> QED
      BY <3>1 DEF Way, Held
  <2> QED
    BY <1>3, <2>1 DEF InvSlot, Sync, RecvExit, RecvGoto, FailSlot
<1>6. InvResults'
  BY SMTT(10) DEF InvResults, RecvExit, RecvAt, RecvGoto, FailSlot, NotifyAll
<1> QED
  BY <1>1, <1>2, <1>3, <1>4, <1>5, <1>6

(* The receiver leaves with the connection already broken. *)
LEMMA SoleRecvDone ==
  ASSUME NEW r \in Threads, TypeOK, TypeOK', SoleInv(r), RecvDone
  PROVE  SoleInv(r)'
<1> USE DEF SoleInv, link, counters, slot, TypeOK, TypeThreads, Pcs, WaitPcs,
       WaitAllPcs, WaitOnePcs
<1>1. (\A t \in Threads \ {r} : Bystander(t))' /\ InvLink' /\ InvReply(r)'
  BY SMTT(10) DEF Bystander, InvLink, InvReply, Sync, RecvDone, RecvAt, Stopped
<1>2. InvReceiver(r)'
  BY SMTT(10)
  DEF InvReceiver, InvLink, Started, TypeReceiver, RecvPcs, RecvDone, RecvAt,
      Stopped
<1>3. InvWire(r)' /\ Way' = Way
  BY SMTT(10), WireSame DEF SyncOut, RecvDone, RecvAt, Stopped
<1>4. InvCount(r)'
  BY SMTT(10), <1>3, WayType, AsyncAssumption
  DEF AsyncAssumption, InvCount, Batch, SyncOut, Sending, Counting,
      TypeCounters, RecvDone, RecvAt, Stopped
<1>5. InvSlot(r)'
  BY SMTT(10), <1>3, WayType DEF InvSlot, Sync, RecvDone, RecvAt, Stopped
<1>6. InvResults'
  BY SMTT(10) DEF InvResults, RecvDone, RecvAt, Stopped
<1> QED
  BY <1>1, <1>2, <1>3, <1>4, <1>5, <1>6

(* The server answers the oldest request. *)
LEMMA SoleServerReply ==
  ASSUME NEW r \in Threads, TypeOK, TypeOK', SoleInv(r), ServerReply
  PROVE  SoleInv(r)'
<1> USE DEF SoleInv, thread, counters, slot, TypeOK, TypeThreads, Pcs, WaitPcs,
       WaitAllPcs, WaitOnePcs
<1>1. (\A t \in Threads \ {r} : Bystander(t))' /\ InvLink' /\ InvReply(r)'
  BY SMTT(10) DEF Bystander, InvLink, InvReply, Sync, ServerReply
<1>2. InvReceiver(r)'
  BY SMTT(10)
  DEF InvReceiver, InvLink, Started, TypeReceiver, RecvPcs, ServerReply
<1>3. InvWire(r)'
  <2>1. UNCHANGED <<recv, frame, received, pc>>
    BY DEF ServerReply
  <2>2. CASE SyncOut(r)
    BY <2>1, <2>2, ReplyWay, WayType DEF InvWire, SyncOut, Way
  <2>3. CASE ~SyncOut(r)
    <3>1. \A j \in 1 .. Len(toClient') :
            toClient'[j] = Async(r, received + Held + j)
      <4> TAKE j \in 1 .. Len(toClient')
      <4>1. CASE j \in 1 .. Len(toClient)
        BY <2>3, <4>1, ReplyWay DEF InvWire
      <4>2. CASE j = Len(toClient) + 1
        <5>1. toServer[1] = Async(r, received + Held + Len(toClient) + 1)
          BY <2>3, ReplyWay, WayType DEF InvWire
        <5>2. received + Held + Len(toClient) + 1 = received + Held + j
          <6>1. received \in Nat /\ Held \in Nat /\ Len(toClient) \in Nat
            BY WayType DEF TypeCounters
          <6> QED
            BY ONLY <4>2, <6>1
        <5> QED
          BY <4>2, <5>1, <5>2, ReplyWay
      <4> QED
        BY <4>1, <4>2, ReplyWay, WayType
    <3>2. \A j \in 1 .. Len(toServer') :
            toServer'[j] = Async(r, received + Held + Len(toClient') + j)
      <4> TAKE j \in 1 .. Len(toServer')
      <4>1. /\ toServer'[j] = toServer[j + 1]
            /\ j \in Nat /\ j + 1 \in 1 .. Len(toServer)
            /\ Len(toClient') = Len(toClient) + 1
        BY ReplyWay, WayType
      <4>2. toServer[j + 1] = Async(r, received + Held + Len(toClient) + (j + 1))
        BY <2>3, <4>1 DEF InvWire
      <4>3. received + Held + Len(toClient) + (j + 1)
              = received + Held + Len(toClient') + j
        <5>1. received \in Nat /\ Held \in Nat /\ Len(toClient) \in Nat
          BY WayType DEF TypeCounters
        <5> QED
          BY ONLY <4>1, <5>1
      <4> QED
        BY <4>1, <4>2, <4>3
    <3> QED
      BY <2>1, <2>3, <3>1, <3>2, ReplyWay DEF InvWire, SyncOut
  <2> QED
    BY <2>2, <2>3
<1>4. InvCount(r)'
  BY ReplyWay, WayType
  DEF InvCount, Batch, SyncOut, Sending, Counting, TypeCounters, ServerReply
<1>5. InvSlot(r)'
  BY ReplyWay DEF InvSlot, ServerReply, Sync
<1>6. InvResults'
  BY SMTT(10) DEF InvResults, ServerReply
<1> QED
  BY <1>1, <1>2, <1>3, <1>4, <1>5, <1>6

(* What was on its way is lost with the connection. *)
LEMMA SoleLose ==
  ASSUME NEW r \in Threads, TypeOK, TypeOK', SoleInv(r), Lose
  PROVE  SoleInv(r)'
<1> USE DEF SoleInv, thread, counters, slot, TypeOK, TypeThreads, Pcs, WaitPcs,
       WaitAllPcs, WaitOnePcs
<1>1. (\A t \in Threads \ {r} : Bystander(t))' /\ InvLink' /\ InvReply(r)'
  BY SMTT(10) DEF Bystander, InvLink, InvReply, Sync, Lose
<1>2. InvReceiver(r)'
  BY SMTT(10) DEF InvReceiver, InvLink, Started, TypeReceiver, RecvPcs, Lose
<1>3. InvWire(r)'
  BY SMTT(10), WayType
  DEF InvWire, SyncOut, Held, Way, Async, Sync, InvReceiver, InvLink, InvCount,
      InvCount, Batch, SyncOut, Sending, Counting, TypeLink, Lose
<1>4. InvCount(r)'
  <2>1. Way' <= Way /\ Way' \in Nat /\ ~peer'
    BY WayType DEF Lose, Way, Held
  <2>2. Batch(r)' <= Batch(r) /\ Batch(r) \in Nat /\ Batch(r)' \in Nat
    BY <2>1, WayType DEF Batch, SyncOut, Lose
  <2> QED
    BY <2>1, <2>2, WayType DEF InvCount, Sending, Counting, TypeCounters, Lose
<1>5. InvSlot(r)'
  <2>1. Way = 0 => Way' = 0
    BY WayType DEF Lose, Way, Held
  <2> QED
    BY <2>1 DEF InvSlot, Lose, Sync
<1>6. InvResults'
  BY SMTT(10) DEF InvResults, Lose
<1> QED
  BY <1>1, <1>2, <1>3, <1>4, <1>5, <1>6

-----------------------------------------------------------------------------
(* The calls that only wait, take results or set the cap. *)
LEMMA SoleWaiting ==
  ASSUME NEW r \in Threads, TypeOK, TypeOK', SoleInv(r), SoleRequester(r),
         NEW t \in Threads,
         \/ WaitAllCall(t) \/ \E i \in Ids : WaitOneCall(t, i)
         \/ Wait(t) \/ Timeout(t)
  PROVE  SoleInv(r)'
<1> USE DEF At, Goto, SetArg, Calls, Bystander, WaitAllPcs, WaitOnePcs
<1>1. /\ pc[t] \in {"idle"} \cup WaitAllPcs \cup WaitOnePcs
      /\ pc'[t] \in {"idle"} \cup WaitAllPcs \cup WaitOnePcs
      /\ \A u \in Threads \ {t} : pc'[u] = pc[u] /\ arg'[u] = arg[u]
  <2> USE DEF TypeOK, TypeThreads
  <2>1. CASE WaitAllCall(t)
    BY <2>1 DEF WaitAllCall, shared
  <2>2. CASE \E i \in Ids : WaitOneCall(t, i)
    BY <2>2 DEF WaitOneCall, shared
  <2>3. CASE Wait(t)
    BY <2>3 DEF Wait, Await
  <2>4. CASE Timeout(t)
    BY <2>4 DEF Timeout
  <2> QED
    BY <2>1, <2>2, <2>3, <2>4
<1>2. UNCHANGED <<link, thread, counters, slot, results, reply, crashed>>
  BY DEF WaitAllCall, WaitOneCall, Wait, Await, Timeout, shared
<1>3. \A u \in Threads \ {r} : Bystander(u)'
  BY <1>1 DEF SoleInv
<1>4. \/ pc'[r] = pc[r] /\ arg'[r] = arg[r]
      \/ Bystander(r) /\ Bystander(r)'
  BY <1>1
<1>5. UNCHANGED <<nextBatchId, sent, received, consumed>>
  BY <1>2 DEF counters
<1>6. InvResults'
  BY <1>2, <1>5 DEF SoleInv, InvResults
<1> QED
  BY <1>2, <1>3, <1>4, <1>5, <1>6, Quiet DEF SoleInv

(* A result taken is one received and not yet consumed. *)
LEMMA SoleGetResult ==
  ASSUME NEW r \in Threads, TypeOK, TypeOK', SoleInv(r),
         NEW t \in Threads, NEW i \in DOMAIN results, GetResult(t, i)
  PROVE  SoleInv(r)'
<1>1. UNCHANGED <<link, thread, nextBatchId, sent, received, slot, pc, arg, reply,
                  crashed>>
  BY DEF GetResult
<1>2. InvResults'
  <2>1. /\ DOMAIN results' = DOMAIN results \ {i} /\ consumed' = consumed + 1
        /\ \A j \in DOMAIN results' : results'[j] = results[j]
    BY DEF GetResult, Without
  <2>2. IsFiniteSet(DOMAIN results) /\ Cardinality(DOMAIN results) \in Nat
    BY FS_CardinalityType DEF SoleInv, InvResults
  <2>3. /\ IsFiniteSet(DOMAIN results')
        /\ Cardinality(DOMAIN results') = Cardinality(DOMAIN results) - 1
    BY <2>1, <2>2, FS_RemoveElement
  <2> QED
    BY <1>1, <2>1, <2>2, <2>3
    DEF SoleInv, InvResults, TypeOK, TypeCounters
<1> QED
  BY <1>1, <1>2, Quiet DEF SoleInv, Bystander

(* The cap bears on nothing else. *)
LEMMA SoleSetMax ==
  ASSUME NEW r \in Threads, TypeOK, TypeOK', SoleInv(r),
         NEW t \in Threads, NEW n \in PendingArgs, SetMaxPending(t, n)
  PROVE  SoleInv(r)'
<1>1. UNCHANGED <<link, thread, nextBatchId, sent, received, consumed, results,
                  slot, pc, arg, reply, crashed>>
  BY DEF SetMaxPending
<1> QED
  BY <1>1, Quiet DEF SoleInv, Bystander, InvResults

(* A connection that was never opened satisfies it. *)
LEMMA SoleInit == ASSUME NEW r \in Threads, Init PROVE SoleInv(r)
<1>1. Way = 0 /\ Len(toClient) = 0 /\ Len(toServer) = 0
  BY DEF Init, Way, Held
<1>2. DOMAIN results = {}
  BY DEF Init
<1>3. InvResults
  BY <1>2, FS_EmptySet DEF Init, InvResults
<1>4. \A t \in Threads : pc[t] = "idle" /\ reply[t] = Nothing
  BY DEF Init
<1>5. InvWire(r)
  BY <1>1, <1>4 DEF Init, InvWire, SyncOut
<1>6. InvCount(r)
  BY <1>1, <1>4, AsyncAssumption
  DEF AsyncAssumption, Init, InvCount, Batch, SyncOut, Sending, Counting
<1> QED
  BY <1>3, <1>4, <1>5, <1>6
  DEF Init, SoleInv, Bystander, InvLink, InvReceiver, InvSlot, InvReply, Started

(* With one requester only that thread takes the steps of a request. *)
LEMMA OneRequester ==
  ASSUME NEW r \in Threads, SoleRequester(r), SoleInv(r),
         NEW t \in Threads \ {r}, Call(t) \/ Consume(t) \/ Step(t) \/ Timeout(t)
  PROVE  \/ WaitAllCall(t) \/ \E i \in Ids : WaitOneCall(t, i)
         \/ Wait(t) \/ Timeout(t)
         \/ \E i \in DOMAIN results : GetResult(t, i)
         \/ \E n \in PendingArgs : SetMaxPending(t, n)
<1>1. Ops[t] \cap {"insert", "sync", "close", "connect"} = {} /\ Bystander(t)
  BY DEF SoleRequester, SoleInv
<1>2. ~(InsertCall(t) \/ SyncCall(t) \/ CloseCall(t))
  BY <1>1 DEF InsertCall, SyncCall, CloseCall, Calls
<1>3. Step(t) => Wait(t)
  BY <1>1
  DEF Step, Bystander, WaitAllPcs, WaitOnePcs, At, Spawn, SpawnFails, Reserve,
      Alloc, Count,
      InsertSend, Drain, Claim, SyncSend, SyncWait, SyncTake, DirectSend,
      DirectRecv, CloseShut, CloseJoin, CloseReset, Handshake
<1> QED
  BY <1>2, <1>3 DEF Call, Consume

(* With one requester the invariant holds throughout: the answers come in  *)
(* the order of the requests, each counted once, and a synchronous request *)
(* travels alone.                                                          *)
THEOREM SoleInvariant ==
  ASSUME NEW r \in Threads, SoleRequester(r)
  PROVE  Spec => []SoleInv(r)
<1>1. Init => SoleInv(r)
  BY SoleInit
<1>2. TypeOK /\ TypeOK' /\ SoleInv(r) /\ [Next]_vars => SoleInv(r)'
  <2> SUFFICES ASSUME TypeOK, TypeOK', SoleInv(r), [Next]_vars PROVE SoleInv(r)'
    OBVIOUS
  <2>1. CASE Call(r) \/ Consume(r) \/ Step(r) \/ Timeout(r)
    BY <2>1, SoleInsertCall, SoleSpawn, SoleSyncCall, SoleWaiting, SoleCloseCall,
       SoleSetMax,
       SoleGetResult, SoleReserve, SoleAlloc, SoleCount, SoleInsertSend,
       SoleDrain, SoleClaim, SoleSyncSend, SoleSyncWait, SoleDirectSend,
       SoleDirectRecv, SoleCloseShut, SoleCloseJoin, SoleCloseReset,
       SoleHandshake
    DEF Call, Consume, Step
  <2>2. ASSUME NEW t \in Threads \ {r}, Call(t) \/ Consume(t) \/ Step(t) \/ Timeout(t)
        PROVE  SoleInv(r)'
    BY <2>2, OneRequester, SoleWaiting, SoleGetResult, SoleSetMax
  <2>3. CASE Receiver
    BY <2>3, SoleRecvCheck, SoleRecvTimeout, SoleRecvRead, SoleRecvEof,
       SoleDispatch, SoleRecvExit, SoleRecvDone DEF Receiver
  <2>4. CASE ServerReply \/ Lose
    BY <2>4, SoleServerReply, SoleLose
  <2>5. CASE UNCHANGED vars
    <3>1. UNCHANGED <<link, thread, counters, slot, results, reply, crashed, pc, arg>>
      BY <2>5 DEF vars, shared
    <3>2. UNCHANGED <<nextBatchId, sent, received, consumed>>
      BY <3>1 DEF counters
    <3> QED
      BY <3>1, <3>2, Quiet DEF SoleInv, Bystander, InvResults
  <2> QED
    BY <2>1, <2>2, <2>3, <2>4, <2>5 DEF Next
<1>3. Spec => []TypeOK
  BY TypeCorrect
<1> QED
  BY <1>1, <1>2, <1>3, PTL DEF Spec

(* The frames on their way, one by one. *)
LEMMA PipelineAt ==
  ASSUME NEW r \in Threads, TypeOK, SoleInv(r)
  PROVE  /\ Len(Pipeline) = Way
         /\ \A k \in 1 .. Way :
              Pipeline[k] = IF SyncOut(r) THEN Sync(r) ELSE Async(r, received + k)
<1> DEFINE held == IF recv = "got" THEN <<frame>> ELSE <<>>
<1>1. /\ held \in Seq(Frame) /\ Len(held) = Held
      /\ recv = "got" => held[1] = frame
  BY DEF TypeOK, TypeReceiver, Answer, Held
<1>2. toClient \in Seq(Frame) /\ toServer \in Seq(Frame) /\ received \in Nat
  BY DEF TypeOK, TypeLink, TypeCounters
<1> HIDE DEF held
<1>3. Pipeline = held \o toClient \o toServer
  BY DEF Pipeline, held
<1>4. /\ Len(Pipeline) = Way
      /\ \A k \in 1 .. Way :
           Pipeline[k] = IF k <= Held THEN held[k]
                         ELSE IF k <= Held + Len(toClient) THEN toClient[k - Held]
                         ELSE toServer[k - Held - Len(toClient)]
  BY <1>1, <1>2, <1>3, WayType DEF Way
<1> SUFFICES ASSUME NEW k \in 1 .. Way
             PROVE  Pipeline[k] = IF SyncOut(r) THEN Sync(r)
                                  ELSE Async(r, received + k)
  BY <1>4
<1>5. CASE k <= Held
  <2>1. k = 1 /\ recv = "got" /\ Held = 1
    BY <1>5, WayType DEF Held
  <2> QED
    BY <1>1, <1>4, <2>1 DEF SoleInv, InvWire
<1>6. CASE Held < k /\ k <= Held + Len(toClient)
  <2>1. k - Held \in 1 .. Len(toClient) /\ received + Held + (k - Held) = received + k
    BY <1>2, <1>6, WayType
  <2> QED
    BY <1>4, <1>6, <2>1, WayType DEF SoleInv, InvWire
<1>7. CASE Held + Len(toClient) < k
  <2>1. /\ k - Held - Len(toClient) \in 1 .. Len(toServer)
        /\ received + Held + Len(toClient) + (k - Held - Len(toClient)) = received + k
    <3>1. /\ k \in Nat /\ k <= Held + Len(toClient) + Len(toServer)
          /\ Held \in Nat /\ Len(toClient) \in Nat /\ Len(toServer) \in Nat
      BY WayType DEF Way
    <3> QED
      BY ONLY <1>2, <1>7, <3>1
  <2>2. toServer[k - Held - Len(toClient)]
          = IF SyncOut(r) THEN Sync(r) ELSE Async(r, received + k)
    BY <2>1 DEF SoleInv, InvWire
  <2> QED
    BY <1>4, <1>7, <2>2, WayType
<1> QED
  BY <1>5, <1>6, <1>7, WayType

(* With one requester the number of pending results is exact, and none     *)
(* outlives the connection it was received on (executeInsertAsync,         *)
(* getAsyncResult, close).                                                 *)
THEOREM SoleAccounting ==
  ASSUME NEW r \in Threads, SoleRequester(r)
  PROVE  Spec => [](Accounting /\ NoStaleResult)
<1>1. TypeOK /\ SoleInv(r) => Accounting /\ NoStaleResult
  <2> SUFFICES ASSUME TypeOK, SoleInv(r) PROVE Accounting /\ NoStaleResult
    OBVIOUS
  <2>1. Accounting
    BY DEF SoleInv, InvResults, Accounting
  <2>2. received <= sent /\ sent < nextBatchId
    BY WayType
    DEF SoleInv, InvCount, Batch, Sending, Counting, TypeOK, TypeCounters
  <2>3. \A i \in DOMAIN results : i < nextBatchId
    BY <2>2 DEF SoleInv, InvResults, TypeOK, TypeCounters, TypeResults
  <2> QED
    BY <2>1, <2>2, <2>3 DEF NoStaleResult
<1> QED
  BY <1>1, SoleInvariant, TypeCorrect, PTL

(* With one requester every result is filed under the id of its own batch, *)
(* whether or not the server echoes the ids.                               *)
THEOREM SoleCorrelated ==
  ASSUME NEW r \in Threads, SoleRequester(r)
  PROVE  Spec => []Correlated
<1>1. SoleInv(r) => Correlated
  BY DEF SoleInv, InvResults, Correlated
<1> QED
  BY <1>1, SoleInvariant, PTL

(* With one requester a synchronous call gets the answer to its own        *)
(* request or none: sendRecv() never misreads that of a batch.             *)
THEOREM SoleOwnReply ==
  ASSUME NEW r \in Threads, SoleRequester(r)
  PROVE  Spec => []SyncOwnReply
<1>1. SoleInv(r) => SyncOwnReply
  BY DEF SoleInv, InvReply, Sync, SyncOwnReply
<1> QED
  BY <1>1, SoleInvariant, PTL

(* With one requester a synchronous call never shares the wire, and        *)
(* waitAllAsync returns only when everything sent before it was answered.  *)
THEOREM SoleExclusive ==
  ASSUME NEW r \in Threads, SoleRequester(r)
  PROVE  Spec => [](SlotExclusive /\ WaitAllExact)
<1>1. TypeOK /\ SoleInv(r) => SlotExclusive /\ WaitAllExact
  <2> SUFFICES ASSUME TypeOK, SoleInv(r) PROVE SlotExclusive /\ WaitAllExact
    OBVIOUS
  <2>1. SlotExclusive
    <3> SUFFICES ASSUME NEW t \in Threads, pc[t] = "syncWait",
                        NEW k \in 1 .. Len(Pipeline)
                 PROVE  k = 1 /\ Pipeline[k] = [by |-> t, id |-> 0]
      BY DEF SlotExclusive
    <3>1. t = r
      BY DEF SoleInv, Bystander, WaitAllPcs, WaitOnePcs
    <3>2. SyncOut(r) /\ Way <= 1
      BY <3>1 DEF SyncOut, SoleInv, InvWire
    <3> QED
      BY <3>1, <3>2, PipelineAt, WayType DEF Sync
  <2>2. WaitAllExact
    <3> SUFFICES ASSUME NEW t \in Threads, received >= arg[t],
                        NEW k \in 1 .. Len(Pipeline), Pipeline[k].id # 0
                 PROVE  Pipeline[k].id > arg[t]
      BY DEF WaitAllExact
    <3>1. Pipeline[k].id = received + k
      <4>1. k \in 1 .. Way
        BY PipelineAt
      <4>2. CASE SyncOut(r)
        <5>1. Pipeline[k] = Sync(r)
          BY <4>1, <4>2, PipelineAt
        <5> QED
          BY <5>1 DEF Sync
      <4>3. CASE ~SyncOut(r)
        <5>1. Pipeline[k] = Async(r, received + k)
          BY <4>1, <4>3, PipelineAt
        <5> QED
          BY <5>1 DEF Async
      <4> QED
        BY <4>2, <4>3
    <3>2. received \in Nat /\ arg[t] \in Nat /\ k \in Nat /\ k >= 1
      BY PipelineAt, WayType DEF TypeOK, TypeCounters, TypeThreads
    <3> QED
      BY <3>1, <3>2
  <2> QED
    BY <2>1, <2>2
<1> QED
  BY <1>1, SoleInvariant, TypeCorrect, PTL

-----------------------------------------------------------------------------
(* The batch interface.  With one requester the status of a batch depends  *)
(* on five things only: the ids handed out (n), the results held (D), the  *)
(* answers counted (f), the batches on their way (b) and whether the       *)
(* requester is about to send one (h).                                     *)
Hand(r) == IF pc[r] \in {"count", "send"} THEN 1 ELSE 0

Status(n, D, f, b, h) ==
  [i \in Ids |-> IF i >= n THEN "free"
                 ELSE IF i \in D THEN "ready"
                 ELSE IF (f < i /\ i <= f + b) \/ (h = 1 /\ i = n - 1)
                      THEN "open" ELSE "closed"]

(* What the invariant says of these five: everything counted, on its way   *)
(* or about to be sent has an id, and only what was counted is held.       *)
Fits(n, D, f, b, h) ==
  /\ n \in Nat \ {0} /\ n <= MaxBatch + 1
  /\ f \in Nat /\ b \in Nat /\ h \in {0, 1} /\ f + b + h < n
  /\ \A i \in D : i \in Nat \ {0} /\ i <= f

(* These bounds follow from the invariant. *)
LEMMA SoleFits ==
  ASSUME NEW r \in Threads, TypeOK, SoleInv(r)
  PROVE  Fits(nextBatchId, DOMAIN results, received, Batch(r), Hand(r))
<1>1. /\ Way \in Nat /\ Batch(r) \in Nat /\ nextBatchId \in Nat \ {0}
      /\ sent \in Nat /\ received \in Nat /\ Hand(r) \in {0, 1}
  BY WayType, AsyncAssumption DEF Batch, Hand, TypeOK, TypeCounters, AsyncAssumption
<1>2. /\ received + Batch(r) + Sending(r) <= sent
      /\ sent + Counting(r) < nextBatchId /\ nextBatchId <= MaxBatch + 1
  BY DEF SoleInv, InvCount
<1>3. received + Batch(r) + Hand(r) < nextBatchId
  BY <1>1, <1>2 DEF Sending, Counting, Hand
<1>4. \A i \in DOMAIN results : i \in Nat \ {0} /\ i <= received
  BY DEF SoleInv, InvResults, TypeOK, TypeResults
<1> QED
  BY <1>1, <1>2, <1>3, <1>4 DEF Fits

(* The refinement mapping in these terms. *)
Mapped(r) ==
  /\ Fits(nextBatchId, DOMAIN results, received, Batch(r), Hand(r))
  /\ BatchStatus = Status(nextBatchId, DOMAIN results, received, Batch(r), Hand(r))

(* The pipeline, whose frames carry consecutive ids, determines it. *)
LEMMA StatusIs ==
  ASSUME NEW r \in Threads, TypeOK, SoleInv(r)
  PROVE  Mapped(r)
<1>1. /\ Way \in Nat /\ nextBatchId \in Nat /\ received \in Nat
  BY WayType DEF TypeOK, TypeCounters
<1>2. ASSUME NEW i \in Ids
      PROVE  Open(i) <=> \/ received < i /\ i <= received + Batch(r)
                         \/ Hand(r) = 1 /\ i = nextBatchId - 1
  <2>0. i \in Nat /\ i # 0
    BY AsyncAssumption DEF Ids, AsyncAssumption
  <2>1. (\E t \in Threads : pc[t] \in {"count", "send"} /\ arg[t] = i)
          <=> Hand(r) = 1 /\ i = nextBatchId - 1
    BY DEF Hand, SoleInv, Bystander, WaitAllPcs, WaitOnePcs, InvCount
  <2>2. (\E k \in 1 .. Len(Pipeline) : Pipeline[k].id = i)
          <=> received < i /\ i <= received + Batch(r)
    <3>1. CASE SyncOut(r)
      <4>1. \A k \in 1 .. Len(Pipeline) : Pipeline[k].id = 0
        <5>1. Len(Pipeline) = Way /\ \A k \in 1 .. Way : Pipeline[k] = Sync(r)
          BY <3>1, PipelineAt
        <5> QED
          BY <5>1 DEF Sync
      <4>2. Batch(r) = 0
        BY <3>1 DEF Batch
      <4> QED
        BY <1>1, <2>0, <4>1, <4>2
    <3>2. CASE ~SyncOut(r)
      <4>1. /\ Len(Pipeline) = Way /\ Batch(r) = Way
            /\ \A k \in 1 .. Way : Pipeline[k].id = received + k
        <5>1. /\ Len(Pipeline) = Way
              /\ \A k \in 1 .. Way : Pipeline[k] = Async(r, received + k)
          BY <3>2, PipelineAt
        <5> QED
          BY <3>2, <5>1 DEF Async, Batch
      <4>2. ASSUME received < i, i <= received + Way
            PROVE  i - received \in 1 .. Way /\ received + (i - received) = i
        BY <1>1, <2>0, <4>2
      <4>3. ASSUME NEW k \in 1 .. Way, received + k = i
            PROVE  received < i /\ i <= received + Way
        BY <1>1, <2>0, <4>3
      <4> QED
        BY <4>1, <4>2, <4>3
    <3> QED
      BY <3>1, <3>2
  <2> QED
    BY <2>1, <2>2 DEF Open
<1> QED
  BY <1>2, SoleFits DEF BatchStatus, Status, Ready, Mapped

-----------------------------------------------------------------------------
(* What a step can do to the five. *)
Same(r)     == UNCHANGED <<nextBatchId, DOMAIN results, received>>
               /\ Batch(r)' = Batch(r) /\ Hand(r)' = Hand(r)
Submits(r)  == /\ UNCHANGED <<DOMAIN results, received>> /\ Batch(r)' = Batch(r)
               /\ Hand(r) = 0 /\ Hand(r)' = 1 /\ nextBatchId' = nextBatchId + 1
Loses(r)    == /\ UNCHANGED <<nextBatchId, DOMAIN results, received>>
               /\ Hand(r)' = Hand(r) /\ Batch(r)' <= Batch(r)
Sends(r)    == /\ UNCHANGED <<nextBatchId, DOMAIN results, received>>
               /\ Hand(r) = 1 /\ Hand(r)' = 0 /\ Batch(r)' = Batch(r) + 1
               /\ nextBatchId = received + Batch(r) + 2
Fails(r)    == /\ UNCHANGED <<nextBatchId, DOMAIN results, received>>
               /\ Hand(r) = 1 /\ Hand(r)' = 0 /\ Batch(r)' = Batch(r)
Completes(r) == /\ UNCHANGED nextBatchId /\ Hand(r)' = Hand(r)
                /\ Batch(r) > 0 /\ Batch(r)' = Batch(r) - 1
                /\ received' = received + 1
                /\ (DOMAIN results)' = DOMAIN results \cup {received + 1}
Takes(r)    == /\ UNCHANGED <<nextBatchId, received>>
               /\ Batch(r)' = Batch(r) /\ Hand(r)' = Hand(r)
               /\ \E i \in DOMAIN results : (DOMAIN results)' = DOMAIN results \ {i}

Effect(r) == \/ Same(r) \/ Submits(r) \/ Loses(r) \/ Sends(r) \/ Fails(r)
             \/ Completes(r) \/ Takes(r) \/ nextBatchId' = 1

(* An id handed out is the first free one, and is open while it is sent. *)
LEMMA StatusSubmit ==
  ASSUME NEW n \in Nat, NEW D, NEW f \in Nat, NEW b \in Nat,
         Fits(n, D, f, b, 0), n <= MaxBatch
  PROVE  /\ n \in Ids /\ Status(n, D, f, b, 0)[n] = "free"
         /\ \A j \in Ids : j < n => Status(n, D, f, b, 0)[j] # "free"
         /\ Status(n + 1, D, f, b, 1) =
              [Status(n, D, f, b, 0) EXCEPT ![n] = "open"]
<1> USE AsyncAssumption DEF AsyncAssumption, Fits, Ids
<1>1. n \in Ids /\ n \notin D /\ Status(n, D, f, b, 0)[n] = "free"
  BY DEF Status
<1>2. \A j \in Ids : j < n => Status(n, D, f, b, 0)[j] # "free"
  BY DEF Status
<1>3. ASSUME NEW j \in Ids
      PROVE  Status(n + 1, D, f, b, 1)[j] =
               IF j = n THEN "open" ELSE Status(n, D, f, b, 0)[j]
  BY <1>1 DEF Status
<1> QED
  BY <1>1, <1>2, <1>3 DEF Status

Lost(f, c, b) == {i \in Ids : f + c < i /\ i <= f + b}

(* What is lost from the end of the way is given up. *)
LEMMA StatusLose ==
  ASSUME NEW n, NEW D, NEW f, NEW b, NEW h, Fits(n, D, f, b, h),
         NEW c \in 0 .. b,
         NEW S, S = Lost(f, c, b)
  PROVE  /\ S \in SUBSET Ids
         /\ \A i \in S : Status(n, D, f, b, h)[i] = "open"
         /\ Status(n, D, f, c, h) =
              [i \in Ids |-> IF i \in S THEN "closed"
                             ELSE Status(n, D, f, b, h)[i]]
BY AsyncAssumption DEF AsyncAssumption, Fits, Status, Ids, Lost

(* A batch sent on a standing connection stays open: it is the next on the *)
(* way.                                                                    *)
LEMMA StatusSend ==
  ASSUME NEW n, NEW D, NEW f, NEW b, Fits(n, D, f, b, 1), n = f + b + 2
  PROVE  Status(n, D, f, b + 1, 0) = Status(n, D, f, b, 1)
BY AsyncAssumption DEF AsyncAssumption, Fits, Status, Ids

(* One whose send fails is given up. *)
LEMMA StatusFail ==
  ASSUME NEW n, NEW D, NEW f, NEW b, Fits(n, D, f, b, 1)
  PROVE  /\ {n - 1} \in SUBSET Ids
         /\ \A i \in {n - 1} : Status(n, D, f, b, 1)[i] = "open"
         /\ Status(n, D, f, b, 0) =
              [i \in Ids |-> IF i \in {n - 1} THEN "closed"
                             ELSE Status(n, D, f, b, 1)[i]]
BY AsyncAssumption DEF AsyncAssumption, Fits, Status, Ids

(* The oldest on its way is the one that gets its result. *)
LEMMA StatusComplete ==
  ASSUME NEW n, NEW D, NEW f, NEW b, NEW h, Fits(n, D, f, b, h), b # 0,
         NEW i, i = f + 1, NEW c, c = b - 1
  PROVE  /\ i \in Ids /\ Status(n, D, f, b, h)[i] = "open"
         /\ Status(n, D \cup {i}, i, c, h) =
              [Status(n, D, f, b, h) EXCEPT ![i] = "ready"]
<1> USE AsyncAssumption DEF AsyncAssumption, Fits, Ids
<1>1. i \in Ids /\ i \notin D /\ i < n /\ Status(n, D, f, b, h)[i] = "open"
  BY DEF Status
<1>2. ASSUME NEW j \in Ids
      PROVE  Status(n, D \cup {i}, i, c, h)[j] =
               IF j = i THEN "ready" ELSE Status(n, D, f, b, h)[j]
  BY <1>1 DEF Status
<1> QED
  BY <1>1, <1>2 DEF Status

(* A result taken is gone for good. *)
LEMMA StatusTake ==
  ASSUME NEW n, NEW D, NEW f, NEW b, NEW h, Fits(n, D, f, b, h), NEW i \in D
  PROVE  /\ i \in Ids /\ Status(n, D, f, b, h)[i] = "ready"
         /\ Status(n, D \ {i}, f, b, h) =
              [Status(n, D, f, b, h) EXCEPT ![i] = "closed"]
<1> USE AsyncAssumption DEF AsyncAssumption, Fits, Ids
<1>1. i \in Ids /\ i <= f /\ Status(n, D, f, b, h)[i] = "ready"
  BY DEF Status
<1>2. ASSUME NEW j \in Ids
      PROVE  Status(n, D \ {i}, f, b, h)[j] =
               IF j = i THEN "closed" ELSE Status(n, D, f, b, h)[j]
  BY <1>1 DEF Status
<1> QED
  BY <1>1, <1>2 DEF Status

(* With the ids handed out afresh all batches are free. *)
LEMMA StatusReset ==
  ASSUME NEW D, NEW f, NEW b, NEW h
  PROVE  Status(1, D, f, b, h) = [i \in Ids |-> "free"]
BY AsyncAssumption DEF AsyncAssumption, Status, Ids

(* Each of these is a step of the batch interface or none. *)
LEMMA EffectSteps ==
  ASSUME NEW r \in Threads, Mapped(r), Mapped(r)', Effect(r)
  PROVE  [Batches!Next]_BatchStatus
<1> DEFINE n == nextBatchId  D == DOMAIN results  f == received
           b == Batch(r)  h == Hand(r)
<1>1. BatchStatus = Status(n, D, f, b, h) /\ Fits(n, D, f, b, h)
  BY DEF Mapped
<1>2. BatchStatus' = Status(n', D', f', b', h') /\ Fits(n', D', f', b', h')
  BY DEF Mapped, Status, Fits, Ids
<1> HIDE DEF n, D, f, b, h
<1>0. n \in Nat /\ f \in Nat /\ b \in Nat
  BY <1>1 DEF Fits
<1>3. Batches!Ids = Ids
  BY DEF Batches!Ids, Ids
<1>4. CASE Same(r)
  BY <1>1, <1>2, <1>4 DEF Same, n, D, f, b, h
<1>5. CASE Submits(r)
  <2>1. n' = n + 1 /\ D' = D /\ f' = f /\ b' = b /\ h = 0 /\ h' = 1
    BY <1>5 DEF Submits, n, D, f, b, h
  <2>2. n <= MaxBatch
    BY <1>1, <1>2, <2>1, AsyncAssumption DEF Fits, AsyncAssumption
  <2>3. /\ n \in Ids /\ Status(n, D, f, b, h)[n] = "free"
        /\ \A j \in Ids : j < n => Status(n, D, f, b, h)[j] # "free"
        /\ Status(n', D', f', b', h') =
              [Status(n, D, f, b, h) EXCEPT ![n] = "open"]
    <3>1. Fits(n, D, f, b, 0)
      BY <1>1, <2>1, Zenon
    <3>2. /\ n \in Ids /\ Status(n, D, f, b, 0)[n] = "free"
          /\ \A j \in Ids : j < n => Status(n, D, f, b, 0)[j] # "free"
          /\ Status(n + 1, D, f, b, 1) =
              [Status(n, D, f, b, 0) EXCEPT ![n] = "open"]
      BY <1>0, <2>2, <3>1, StatusSubmit, Zenon
    <3> QED
      BY <2>1, <3>2, Zenon
  <2>4. Batches!Submit(n)
    BY <1>1, <1>2, <1>3, <2>3 DEF Batches!Submit
  <2> QED
    BY <1>3, <2>3, <2>4 DEF Batches!Next
<1>6. CASE Loses(r)
  <2>1. n' = n /\ D' = D /\ f' = f /\ b' <= b /\ h' = h /\ b' \in Nat
    BY <1>2, <1>6 DEF Loses, Fits, n, D, f, b, h
  <2>2. PICK S : S = Lost(f, b', b)
    OBVIOUS
  <2>3. b' \in 0 .. b
    BY <1>0, <2>1
  <2>4. /\ S \in SUBSET Ids
        /\ \A i \in S : Status(n, D, f, b, h)[i] = "open"
        /\ Status(n, D, f, b', h) =
              [i \in Ids |-> IF i \in S THEN "closed"
                             ELSE Status(n, D, f, b, h)[i]]
    BY <1>1, <2>2, <2>3, StatusLose
  <2>5. Batches!Abandon(S)
    BY <1>1, <1>2, <1>3, <2>1, <2>4 DEF Batches!Abandon
  <2> QED
    BY <1>3, <2>4, <2>5 DEF Batches!Next
<1>7. CASE Sends(r)
  <2>1. /\ n' = n /\ D' = D /\ f' = f /\ b' = b + 1 /\ h = 1 /\ h' = 0
        /\ n = f + b + 2
    BY <1>7 DEF Sends, n, D, f, b, h
  <2> QED
    BY <1>1, <1>2, <2>1, StatusSend
<1>8. CASE Fails(r)
  <2>1. n' = n /\ D' = D /\ f' = f /\ b' = b /\ h = 1 /\ h' = 0
    BY <1>8 DEF Fails, n, D, f, b, h
  <2>2. Batches!Abandon({n - 1}) /\ {n - 1} \in SUBSET Ids
    BY <1>1, <1>2, <1>3, <2>1, StatusFail DEF Batches!Abandon
  <2> QED
    BY <1>3, <2>2 DEF Batches!Next
<1>9. CASE Completes(r)
  <2>1. PICK i : i = f + 1
    OBVIOUS
  <2>2. n' = n /\ D' = D \cup {i} /\ f' = i /\ b # 0 /\ b' = b - 1 /\ h' = h
    BY <1>0, <1>9, <2>1 DEF Completes, n, D, f, b, h
  <2>3. /\ i \in Ids /\ Status(n, D, f, b, h)[i] = "open"
        /\ Status(n, D \cup {i}, i, b', h) =
              [Status(n, D, f, b, h) EXCEPT ![i] = "ready"]
    BY <1>1, <2>1, <2>2, StatusComplete
  <2>4. Batches!Complete(i)
    BY <1>1, <1>2, <1>3, <2>2, <2>3 DEF Batches!Complete
  <2> QED
    BY <1>3, <2>3, <2>4 DEF Batches!Next
<1>10. CASE Takes(r)
  <2>1. PICK i \in D : D' = D \ {i} /\ n' = n /\ f' = f /\ b' = b /\ h' = h
    BY <1>10 DEF Takes, n, D, f, b, h
  <2>2. i \in Ids /\ Batches!Take(i)
    BY <1>1, <1>2, <1>3, <2>1, StatusTake DEF Batches!Take
  <2> QED
    BY <1>3, <2>2 DEF Batches!Next
<1>11. CASE nextBatchId' = 1
  <2>1. Batches!Reset
    BY <1>1, <1>2, <1>3, <1>11, StatusReset DEF Batches!Reset, n
  <2> QED
    BY <2>1 DEF Batches!Next
<1> QED
  BY <1>4, <1>5, <1>6, <1>7, <1>8, <1>9, <1>10, <1>11 DEF Effect
-----------------------------------------------------------------------------
(* A step that moves no frame and counts none is none of the interface. *)
LEMMA Still ==
  ASSUME NEW r \in Threads, UNCHANGED <<nextBatchId, results, received>>,
         Way' = Way, SyncOut(r)' = SyncOut(r), Hand(r)' = Hand(r)
  PROVE  Effect(r)
BY DEF Effect, Same, Batch

(* The steps of the requester's inserts. *)
LEMMA EffectInsert ==
  ASSUME NEW r \in Threads, TypeOK, SoleInv(r),
         \/ InsertCall(r) \/ Spawn(r) \/ SpawnFails(r)
         \/ Reserve(r) \/ Alloc(r) \/ Count(r) \/ InsertSend(r)
  PROVE  Effect(r)
<1> USE DEF TypeOK, TypeThreads, At, Goto, SetArg, Calls, Await, link, thread,
            counters, slot, SyncOut, Hand
<1>1. CASE InsertCall(r)
  BY <1>1, Still DEF InsertCall, Way, Held
<1>2. CASE Reserve(r)
  <2>1. /\ UNCHANGED <<nextBatchId, results, received, toServer, toClient, recv>>
        /\ SyncOut(r)' = SyncOut(r) /\ Hand(r)' = Hand(r)
    BY <1>2 DEF Reserve
  <2> QED
    BY <2>1, Still DEF Way, Held
<1>3. CASE Alloc(r)
  <2>1. Submits(r)
    BY <1>3 DEF Alloc, Submits, Batch, Way, Held
  <2> QED
    BY <2>1 DEF Effect
<1>4. CASE Count(r)
  BY <1>4, Still DEF Count, Way, Held
<1>5. CASE InsertSend(r)
  <2>1. /\ UNCHANGED <<nextBatchId, results, received, recv>>
        /\ Hand(r) = 1 /\ Hand(r)' = 0 /\ ~SyncOut(r) /\ ~SyncOut(r)'
    BY <1>5 DEF InsertSend
  <2>2. CASE SendFails
    BY <2>1, <2>2 DEF SendFails, Effect, Fails, Batch, Way, Held
  <2>3. CASE Transmit([by |-> r, id |-> arg[r]])
    <3>1. [by |-> r, id |-> arg[r]] \in Frame
      BY FrameType
    <3>2. IF peer THEN Way' = Way + 1 ELSE Way' = Way
      BY <2>1, <2>3, <3>1, TransmitWay
    <3>3. peer => nextBatchId = received + Batch(r) + 2
      <4>1. pc[r] = "send"
        BY <1>5 DEF InsertSend
      <4>2. Sending(r) = 1 /\ Counting(r) = 0
        BY <4>1 DEF Sending, Counting
      <4>3. Batch(r) \in Nat /\ received \in Nat
        BY WayType DEF Batch, TypeCounters
      <4> QED
        BY <4>2, <4>3 DEF SoleInv, InvCount
    <3> QED
      BY <2>1, <3>2, <3>3 DEF Effect, Sends, Fails, Batch
  <2> QED
    BY <1>5, <2>2, <2>3 DEF InsertSend
<1>6. CASE Spawn(r) \/ SpawnFails(r)
  <2>1. recv # "got" /\ recv' # "got"
    BY <1>6 DEF Spawn, SpawnFails, SoleInv, InvReceiver
  <2> QED
    BY <1>6, <2>1, Still DEF Spawn, SpawnFails, Way, Held
<1> QED
  BY <1>1, <1>2, <1>3, <1>4, <1>5, <1>6

(* Those of its synchronous requests, which travel alone. *)
LEMMA EffectSync ==
  ASSUME NEW r \in Threads, TypeOK, SoleInv(r), SoleInv(r)',
         \/ SyncCall(r) \/ Drain(r) \/ Claim(r) \/ SyncSend(r) \/ SyncWait(r)
         \/ DirectSend(r) \/ DirectRecv(r)
  PROVE  Effect(r)
<1> USE DEF TypeOK, TypeThreads, At, Goto, SetArg, Calls, Await, link, thread,
            counters, slot, shared, SyncOut, Hand
<1>1. CASE SyncCall(r)
  BY <1>1, Still DEF SyncCall, Way, Held
<1>2. CASE Drain(r)
  <2>1. /\ UNCHANGED <<nextBatchId, results, received, toServer, toClient, recv>>
        /\ SyncOut(r)' = SyncOut(r) /\ Hand(r)' = Hand(r)
    BY <1>2 DEF Drain
  <2> QED
    BY <2>1, Still DEF Way, Held
<1>3. CASE Claim(r)
  BY <1>3, Still DEF Claim, Way, Held
<1>4. CASE SyncSend(r) \/ SyncWait(r) \/ DirectSend(r) \/ DirectRecv(r)
  <2>1. /\ UNCHANGED <<nextBatchId, results, received>>
        /\ Hand(r)' = Hand(r)
    <3>1. CASE SyncSend(r) \/ DirectSend(r) \/ DirectRecv(r)
      BY <3>1 DEF SyncSend, DirectSend, DirectRecv
    <3>2. CASE SyncWait(r)
      BY <3>2 DEF SyncWait, SyncTake
    <3> QED
      BY <1>4, <3>1, <3>2
  <2>2. Batch(r) = 0
    BY <1>4 DEF SyncSend, DirectSend, DirectRecv, SyncWait, SyncTake, SoleInv,
                InvCount, Batch
  <2>3. Batch(r)' = 0
    <3>1. CASE SyncOut(r)'
      BY <3>1 DEF Batch
    <3>2. CASE ~SyncOut(r)' /\ ~SyncOut(r)
      <4>1. UNCHANGED <<toServer, toClient, recv>>
        BY <1>4, <3>2 DEF SyncSend, DirectSend, DirectRecv, SyncWait, SyncTake, SendFails
      <4> QED
        BY <2>2, <3>2, <4>1 DEF Batch, Way, Held
    <3>3. CASE ~SyncOut(r)' /\ SyncOut(r)
      <4>1. /\ recv = "got" => frame = Sync(r)
            /\ \A j \in 1 .. Len(toClient) : toClient[j] = Sync(r)
            /\ \A j \in 1 .. Len(toServer) : toServer[j] = Sync(r)
        BY <3>3 DEF SoleInv, InvWire
      <4>2. /\ UNCHANGED <<received, frame, recv, toServer>>
            /\ toClient' = toClient \/ (toClient # <<>> /\ toClient' = Tail(toClient))
        BY <1>4, <3>3 DEF SyncSend, DirectSend, DirectRecv, SyncWait, SyncTake
      <4>3. received \in Nat /\ Held \in {0, 1} /\ Held' = Held /\ Way <= 1
        BY <3>3, <4>2, WayType DEF TypeCounters, Held, SoleInv, InvWire
      <4>4. /\ recv = "got" => frame = Async(r, received + 1)
            /\ \A j \in 1 .. Len(toClient') :
                 toClient'[j] = Async(r, received + Held + j)
            /\ \A j \in 1 .. Len(toServer) :
                 toServer[j] = Async(r, received + Held + Len(toClient') + j)
        BY <3>3, <4>2, <4>3 DEF SoleInv, InvWire
      <4>5. \A k \in Nat \ {0} : Async(r, k) # Sync(r)
        BY DEF Async, Sync
      <4>6. toClient' = <<>>
        <5>1. CASE toClient' = toClient
          <6>1. Len(toClient) \in Nat /\ toClient \in Seq(Frame)
            BY DEF TypeLink
          <6>2. CASE Len(toClient) = 0
            BY <5>1, <6>1, <6>2
          <6>3. CASE Len(toClient) # 0
            <7>1. 1 \in 1 .. Len(toClient) /\ received + Held + 1 \in Nat \ {0}
              BY <4>3, <6>1, <6>3
            <7> QED
              BY <4>1, <4>4, <4>5, <5>1, <7>1
          <6> QED
            BY <6>2, <6>3
        <5>2. CASE toClient # <<>> /\ toClient' = Tail(toClient)
          <6>1. toClient \in Seq(Frame) /\ Len(toClient) <= 1
            BY <4>3, WayType DEF TypeLink, Way
          <6> QED
            BY <5>2, <6>1
        <5> QED
          BY <4>2, <5>1, <5>2
      <4>7. Held = 0
        BY <4>1, <4>3, <4>4, <4>5 DEF Held
      <4>8. Len(toServer) = 0
        <5>1. Len(toServer) \in Nat /\ Len(toClient') = 0
          BY <4>6 DEF TypeLink
        <5>2. CASE Len(toServer) # 0
          <6>1. /\ 1 \in 1 .. Len(toServer)
                /\ received + Held + Len(toClient') + 1 \in Nat \ {0}
            BY <4>3, <5>1, <5>2
          <6> QED
            BY <4>1, <4>4, <4>5, <6>1
        <5> QED
          BY <5>2
      <4> QED
        BY <3>3, <4>2, <4>3, <4>6, <4>7, <4>8 DEF Batch, Way
    <3> QED
      BY <3>1, <3>2, <3>3
  <2> QED
    BY <2>1, <2>2, <2>3 DEF Effect, Same
<1> QED
  BY <1>1, <1>2, <1>3, <1>4

(* close() and connect(): what is still on its way is lost, and only then  *)
(* are the ids handed out again.                                           *)
LEMMA EffectClose ==
  ASSUME NEW r \in Threads, TypeOK, SoleInv(r),
         CloseCall(r) \/ CloseShut(r) \/ CloseJoin(r) \/ CloseReset(r)
         \/ Handshake(r)
  PROVE  Effect(r)
<1> USE DEF TypeOK, TypeThreads, At, Goto, SetArg, Calls, link, thread,
            counters, slot, SyncOut, Hand
<1>1. CASE CloseCall(r)
  BY <1>1, Still DEF CloseCall, Way, Held
<1>2. CASE CloseShut(r)
  <2>1. /\ UNCHANGED <<nextBatchId, results, received, recv>>
        /\ Hand(r)' = Hand(r) /\ ~SyncOut(r) /\ ~SyncOut(r)'
        /\ toClient' = <<>> /\ toServer' = <<>>
    BY <1>2 DEF CloseShut, Hangup
  <2>2. Way' <= Way
    BY <2>1, WayType DEF Way, Held
  <2> QED
    BY <2>1, <2>2 DEF Effect, Loses, Batch
<1>3. CASE CloseJoin(r)
  BY <1>3, Still DEF CloseJoin, Way, Held
<1>4. CASE CloseReset(r)
  BY <1>4 DEF CloseReset, FirstId, Effect
<1>5. CASE Handshake(r)
  BY <1>5 DEF Handshake, SoleInv, InvCount, Effect
<1> QED
  BY <1>1, <1>2, <1>3, <1>4, <1>5

(* The receiver's, the server's and the network's. *)
LEMMA EffectWire ==
  ASSUME NEW r \in Threads, TypeOK, SoleInv(r), Receiver \/ ServerReply \/ Lose
  PROVE  Effect(r)
<1> USE DEF link, thread, counters, slot, SyncOut, Hand, RecvAt, RecvGoto
<1>1. CASE RecvCheck \/ RecvTimeout \/ RecvEof \/ RecvExit \/ RecvDone
  BY <1>1, Still DEF RecvCheck, RecvTimeout, RecvEof, RecvExit, RecvDone, Way, Held
<1>2. CASE RecvRead
  BY <1>2, ReadWay, Still DEF RecvRead
<1>3. CASE ServerReply
  BY <1>3, ReplyWay, Still DEF ServerReply
<1>4. CASE Lose
  <2>1. /\ UNCHANGED <<nextBatchId, results, received, recv, toClient>>
        /\ pc' = pc /\ toServer' = <<>>
    BY <1>4 DEF Lose
  <2>2. Way' <= Way
    BY <2>1, WayType DEF Way, Held
  <2> QED
    BY <2>1, <2>2 DEF Effect, Loses, Batch
<1>5. CASE Dispatch
  <2>1. /\ recv = "got" /\ recv' = "check" /\ Held = 1 /\ Held' = 0
        /\ UNCHANGED <<nextBatchId, toClient, toServer>>
        /\ Hand(r)' = Hand(r) /\ SyncOut(r)' = SyncOut(r)
        /\ Way' = Way - 1 /\ Way > 0
    BY <1>5, WayType DEF Dispatch, Way, Held
  <2>2. (syncWaiting <=> pc[r] = "syncWait") /\ pc[r] # "directRecv"
    BY <2>1, WayType DEF SoleInv, InvSlot, InvCount, InvReceiver
  <2>3. CASE syncWaiting
    BY <1>5, <2>1, <2>2, <2>3 DEF Dispatch, CountAsync, Effect, Same, Batch
  <2>4. CASE ~syncWaiting
    <3>1. frame = Async(r, received + 1)
      BY <2>1, <2>2, <2>4 DEF SoleInv, InvWire
    <3>2. \A e \in Echoes : ResultKey(frame, e) = received + 1
      BY <3>1 DEF ResultKey, Async
    <3>3. results' = Store(received + 1, frame) /\ received' = received + 1
      BY <1>5, <2>4, <3>2 DEF Dispatch, CountAsync
    <3>4. (DOMAIN results)' = DOMAIN results \cup {received + 1}
      BY <3>3 DEF Store
    <3> QED
      BY <2>1, <2>2, <2>4, <3>3, <3>4 DEF Effect, Completes, Batch
  <2> QED
    BY <2>3, <2>4
<1> QED
  BY <1>1, <1>2, <1>3, <1>4, <1>5 DEF Receiver

(* The waits and the results taken, by whichever thread. *)
LEMMA EffectWaiting ==
  ASSUME NEW r \in Threads, TypeOK, SoleInv(r), SoleInv(r)', NEW t \in Threads,
         \/ WaitAllCall(t) \/ \E i \in Ids : WaitOneCall(t, i)
         \/ Wait(t) \/ Timeout(t)
         \/ \E i \in DOMAIN results : GetResult(t, i)
         \/ \E n \in PendingArgs : SetMaxPending(t, n)
  PROVE  Effect(r)
<1> USE DEF TypeOK, TypeThreads, At, Goto, SetArg, Calls, Await, link, thread,
            counters, slot, shared, SyncOut, Hand
<1>1. CASE \/ WaitAllCall(t) \/ \E i \in Ids : WaitOneCall(t, i)
           \/ Wait(t) \/ Timeout(t)
  <2>1. UNCHANGED <<nextBatchId, results, received, toServer, toClient, recv>>
    BY <1>1 DEF WaitAllCall, WaitOneCall, Wait, Timeout
  <2>2. SyncOut(r)' = SyncOut(r) /\ Hand(r)' = Hand(r)
    <3>1. CASE WaitAllCall(t)
      BY <3>1 DEF WaitAllCall, WaitAllPcs
    <3>2. CASE \E i \in Ids : WaitOneCall(t, i)
      BY <3>2 DEF WaitOneCall, WaitOnePcs
    <3>3. CASE Wait(t)
      BY <3>3 DEF Wait, WaitAllPcs, WaitOnePcs
    <3>4. CASE Timeout(t)
      BY <3>4 DEF Timeout
    <3> QED
      BY <1>1, <3>1, <3>2, <3>3, <3>4
  <2> QED
    BY <2>1, <2>2, Still DEF Way, Held
<1>2. ASSUME NEW i \in DOMAIN results, GetResult(t, i) PROVE Effect(r)
  BY <1>2 DEF GetResult, Without, Effect, Takes, Batch, Way, Held
<1>3. ASSUME NEW n \in PendingArgs, SetMaxPending(t, n) PROVE Effect(r)
  BY <1>3, Still DEF SetMaxPending, Way, Held
<1> QED
  BY <1>1, <1>2, <1>3

(* With one requester the connection implements AsyncBatches, whoever      *)
(* waits and takes results and however often the connection breaks and is  *)
(* opened again: ids are handed out in order, a batch gets at most one     *)
(* result, which is taken at most once, and only close() frees the ids.    *)
THEOREM SoleImplementsBatches ==
  ASSUME NEW r \in Threads, SoleRequester(r)
  PROVE  Spec => ImplementsBatches
<1>1. TypeOK /\ SoleInv(r) => Mapped(r)
  BY StatusIs
<1>2. Init => Batches!Init
  <2> SUFFICES ASSUME Init PROVE Batches!Init
    OBVIOUS
  <2>1. nextBatchId = 1
    BY DEF Init
  <2> QED
    BY <2>1, AsyncAssumption
    DEF AsyncAssumption, BatchStatus, Ids, Batches!Init, Batches!Ids
<1>3. TypeOK /\ TypeOK' /\ SoleInv(r) /\ SoleInv(r)' /\ Mapped(r) /\ Mapped(r)'
        /\ [Next]_vars => [Batches!Next]_BatchStatus
  <2> SUFFICES ASSUME TypeOK, TypeOK', SoleInv(r), SoleInv(r)', Mapped(r),
                      Mapped(r)', [Next]_vars
               PROVE  [Batches!Next]_BatchStatus
    OBVIOUS
  <2>1. Effect(r)
    <3>1. CASE Call(r) \/ Consume(r) \/ Step(r) \/ Timeout(r)
      BY <3>1, EffectInsert, EffectSync, EffectClose, EffectWaiting
      DEF Call, Consume, Step
    <3>2. ASSUME NEW t \in Threads \ {r},
                 Call(t) \/ Consume(t) \/ Step(t) \/ Timeout(t)
          PROVE  Effect(r)
      BY <3>2, OneRequester, EffectWaiting
    <3>3. CASE Receiver \/ ServerReply \/ Lose
      BY <3>3, EffectWire
    <3>4. CASE UNCHANGED vars
      BY <3>4, Still
      DEF vars, shared, link, thread, counters, Way, Held, SyncOut, Hand
    <3> QED
      BY <3>1, <3>2, <3>3, <3>4 DEF Next
  <2> QED
    BY <2>1, EffectSteps
<1> QED
  BY <1>1, <1>2, <1>3, SoleInvariant, TypeCorrect, PTL
  DEF Spec, ImplementsBatches, Batches!Spec

=============================================================================
