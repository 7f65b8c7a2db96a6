---------------------------- MODULE AsyncBatches ----------------------------
(***************************************************************************)
(* What the asynchronous insert interface of EtDBConnection                *)
(* (src/client/EtDBClient.h) promises, without threads, sockets and        *)
(* counters: batch ids are handed out in order, each batch gets at most    *)
(* one result, a result can be taken once, and only closing the connection *)
(* makes an id available again.                                            *)
(***************************************************************************)
EXTENDS Naturals

CONSTANT MaxBatch

VARIABLE status

Ids == 1 .. MaxBatch
Statuses == {"free", "open", "ready", "closed"}

TypeOK == status \in [Ids -> Statuses]

Init == status = [i \in Ids |-> "free"]

Submit(i) ==
  /\ status[i] = "free" /\ \A j \in Ids : j < i => status[j] # "free"
  /\ status' = [status EXCEPT ![i] = "open"]

Complete(i) ==
  /\ status[i] = "open"
  /\ status' = [status EXCEPT ![i] = "ready"]

Take(i) ==
  /\ status[i] = "ready"
  /\ status' = [status EXCEPT ![i] = "closed"]

(* A failed send, a broken connection: batches that will have no result. *)
Abandon(S) ==
  /\ \A i \in S : status[i] = "open"
  /\ status' = [i \in Ids |-> IF i \in S THEN "closed" ELSE status[i]]

Reset == status' = [i \in Ids |-> "free"]

Next ==
  \/ \E i \in Ids : Submit(i) \/ Complete(i) \/ Take(i)
  \/ \E S \in SUBSET Ids : Abandon(S)
  \/ Reset

Spec == Init /\ [][Next]_status

=============================================================================
