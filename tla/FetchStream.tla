----------------------------- MODULE FetchStream -----------------------------
(***************************************************************************)
(* Streaming results (src/client/EtDBClient.cpp, src/client/etdb.cpp): a   *)
(* query whose answer is large leaves a stream on the dbnode that ran it;  *)
(* the client holds one batch of rows and fetches the next one when an     *)
(* etdb_fetch_row() or etdb_fetch_block() finds the batch drained.         *)
(*                                                                         *)
(* Rows are not represented: a chunk [of |-> r, from |-> f, n |-> n] is    *)
(* the n rows that follow the first f rows of the answer to r's query.     *)
(* The calls are the steps of one thread; how a round trip shares the      *)
(* connection with others is the subject of AsyncConn.                     *)
(***************************************************************************)
EXTENDS Integers, FiniteSets

CONSTANTS
  Results,   (* result handles, one for each query                         *)
  Dbs,       (* the databases (dbnodes)                                    *)
  IdsOf,     (* IdsOf[d]: the stream ids dbnode d hands out                *)
  IdSpan,    (* 2^31: the wire carries the id as an int32_t (SFetchReq)    *)
  MaxRows,   (* bound on the rows of an answer                             *)
  MaxBatch,  (* bound on the rows of a batch                               *)
  MayFail,   (* whether a FETCH may be refused or its answer be malformed  *)
  MayLose    (* whether the connection can break, and be opened again      *)

ASSUME StreamAssumption ==
  /\ IdsOf \in [Dbs -> SUBSET (Nat \ {0})]
  /\ IdSpan \in Nat \ {0} /\ MaxRows \in Nat /\ MaxBatch \in Nat \ {0}
  /\ MayFail \in BOOLEAN /\ MayLose \in BOOLEAN

VARIABLES
  up,       (* the connection carries data                                 *)
  lastDb,   (* _lastdbId                                                   *)
  open,     (* the results whose query has returned                        *)
  total,    (* total[r]: the rows of the answer to r's query               *)
  stream,   (* stream[r]: the stream that a dbnode keeps for r's query     *)
  res,      (* EtDBResult: batch, _rowCursor, _streamQId, _streamEnded and *)
            (* _streamError                                                *)
  api,      (* EtDBResult_Impl: rowValid, blockValid, blockBase, blockRows *)
  handed,   (* the rows the last call handed to the application            *)
  got,      (* how many rows it has been handed so far                     *)
  ret,      (* what the last call returned                                 *)
  dropped,  (* dropped[r]: the rows of a first batch that query() rejected *)
            (* (EtDBResult::error() tells it)                              *)
  astray    (* the results of which a FETCH may have met another's stream: *)
            (* it went to another database, with a cut id, or over a       *)
            (* connection opened later; and those whose stream it met      *)

history == <<dropped, astray>>
vars == <<up, lastDb, open, total, stream, res, api, handed, got, ret, history>>

Chunk == [of : Results, from : Nat, n : Nat]
Rows(r, f, k) == [of |-> r, from |-> f, n |-> k]

Stream(l, d, q, n)    == [live |-> l, db |-> d, id |-> q, next |-> n]
Result(b, c, q, e, x) == [batch |-> b, cursor |-> c, qId |-> q,
                          ended |-> e, error |-> x]
Access(v, w, b, n)    == [rowValid |-> v, blockValid |-> w, base |-> b,
                          rows |-> n]

NoStream == Stream(FALSE, CHOOSE d \in Dbs : TRUE, 0, 0)

(* A result without a stream: everything in one batch, or no rows at all.  *)
OneShot(r, k) == Result(Rows(r, 0, k), 0, 0, TRUE, FALSE)

Init ==
  /\ up = TRUE /\ lastDb \in Dbs /\ open = {}
  /\ total = [r \in Results |-> 0]
  /\ stream = [r \in Results |-> NoStream]
  /\ res = [r \in Results |-> OneShot(r, 0)]
  /\ api = [r \in Results |-> Access(FALSE, FALSE, 0, 0)]
  /\ handed = [r \in Results |-> Rows(r, 0, 0)]
  /\ got = [r \in Results |-> 0]
  /\ ret = [r \in Results |-> "none"]
  /\ dropped = [r \in Results |-> 0] /\ astray = {}

-----------------------------------------------------------------------------
(* query(): the answer's first batch, with or without a stream behind it.  *)

IdInUse(d, q) == \E s \in Results :
                   stream[s].live /\ stream[s].db = d /\ stream[s].id = q

(* A SELECT that fails on its way, or whose answer is rejected at its      *)
(* head, leaves a result without rows and without a stream.                *)
QueryFails(r) ==
  /\ ~up \/ MayFail
  /\ UNCHANGED <<total, stream, res, dropped>>

QuerySmall(r) ==
  /\ up
  /\ \E n \in 0 .. MaxBatch :
       /\ n <= MaxRows
       /\ total' = [total EXCEPT ![r] = n]
       /\ res' = [res EXCEPT ![r] = OneShot(r, n)]
  /\ UNCHANGED <<stream, dropped>>

(* deserialize() has noted the stream before it reads the rows: an answer  *)
(* rejected among them leaves an error, no rows, and a stream from which   *)
(* the next batch can be fetched.                                          *)
Accepts == IF MayFail THEN BOOLEAN ELSE {TRUE}

QueryStreams(r, d) ==
  /\ up
  /\ \E n \in 1 .. MaxRows, k \in 1 .. MaxBatch, q \in IdsOf[d], ok \in Accepts :
       /\ k < n /\ ~IdInUse(d, q)
       /\ total' = [total EXCEPT ![r] = n]
       /\ stream' = [stream EXCEPT ![r] = Stream(TRUE, d, q, k)]
       /\ res' = [res EXCEPT ![r] =
                    Result(IF ok THEN Rows(r, 0, k) ELSE Rows(r, k, 0),
                           0, q, FALSE, FALSE)]
       /\ dropped' = [dropped EXCEPT ![r] = IF ok THEN 0 ELSE k]

Query(r, d) ==
  /\ r \notin open
  /\ open' = open \cup {r}
  /\ lastDb' = d
  /\ QueryFails(r) \/ QuerySmall(r) \/ QueryStreams(r, d)
  /\ UNCHANGED <<up, api, handed, got, ret, astray>>

(* Any other statement: query() notes its database before it is sent, and  *)
(* an INSERT that of its table.                                            *)
Statement(d) ==
  /\ lastDb' = d
  /\ UNCHANGED <<up, open, total, stream, res, api, handed, got, ret, history>>

-----------------------------------------------------------------------------
(* fetchStreamRows(): FETCH goes to the dbnode of the latest statement and *)
(* names the stream by the low bits of its id: whichever stream has that   *)
(* id there is the one that serves it.                                     *)

WireId(q) == q % IdSpan

Serves(s, r) == /\ up /\ stream[s].live
                /\ stream[s].db = lastDb
                /\ stream[s].id = WireId(res[r].qId)

Misled(r) == \/ r \in astray
             \/ lastDb # stream[r].db \/ res[r].qId >= IdSpan

(* Note what the FETCH of r, served by stream s, may have mixed up.        *)
Trace(r, s) == astray' = IF Misled(r) THEN astray \cup {r, s} ELSE astray

(* The next batch of stream s; after the final one the dbnode forgets it.  *)
NextBatch(s, k) == Rows(s, stream[s].next, k)
IsEnd(s, k) == stream[s].next + k = total[s]

Advance(s, k) ==
  stream' = [stream EXCEPT ![s] =
    IF IsEnd(s, k) THEN NoStream
    ELSE Stream(TRUE, stream[s].db, stream[s].id, stream[s].next + k)]

EndAtOnce(s, k) == TRUE                                          \* mutant
EndFlag(s, k)   == IsEnd(s, k)

(* deserialize() of a batch, of which the caller then consumes c rows.     *)
Deserialized(r, s, k, c) ==
  Result(NextBatch(s, k), c, res[r].qId, EndFlag(s, k), res[r].error)

Emptied(b) == Rows(b.of, b.from + b.n, 0)

(* A FETCH that fails ends the stream; an answer rejected half way has     *)
(* also dropped the batch before it.                                       *)
FetchFails(r) ==
  /\ \/ MayFail \/ ~up
     \/ \A s \in Results : ~Serves(s, r)
  /\ \E b \in {res[r].batch} \cup
              (IF MayFail THEN {Emptied(res[r].batch)} ELSE {}) :
       res' = [res EXCEPT ![r] = Result(b, b.n, res[r].qId, TRUE, TRUE)]
  /\ UNCHANGED <<stream, astray>>

Drained(r)  == res[r].cursor >= res[r].batch.n
NoFetch(r)  == res[r].ended \/ res[r].qId = 0

(* The rows up to c of the batch are consumed. *)
Consumed(r, c) ==
  res' = [res EXCEPT ![r] = Result(res[r].batch, c, res[r].qId, res[r].ended,
                                   res[r].error)]

Hand(r, chunk) == /\ handed' = [handed EXCEPT ![r] = chunk]
                  /\ got' = [got EXCEPT ![r] = got[r] + chunk.n]
HandNothing == UNCHANGED <<handed, got>>
Return(r, x) == ret' = [ret EXCEPT ![r] = x]

-----------------------------------------------------------------------------
(* etdb_fetch_row() *)

RowAt(r, c) == Rows(res[r].batch.of, res[r].batch.from + c, 1)

NextRow(r) ==
  /\ ~Drained(r)
  /\ Hand(r, RowAt(r, res[r].cursor))
  /\ Consumed(r, res[r].cursor + 1)
  /\ Return(r, "row")
  /\ UNCHANGED <<stream, astray>>

FetchedRow(r) ==
  /\ Drained(r) /\ ~NoFetch(r)
  /\ \E s \in Results, k \in 1 .. MaxBatch :
       /\ Serves(s, r) /\ stream[s].next + k <= total[s]
       /\ Advance(s, k) /\ Trace(r, s)
       /\ res' = [res EXCEPT ![r] = Deserialized(r, s, k, 1)]
       /\ Hand(r, Rows(s, stream[s].next, 1))
  /\ Return(r, "row")

NoRow(r) ==
  /\ Drained(r)
  /\ \/ /\ NoFetch(r) /\ UNCHANGED <<res, stream, astray>>
        /\ Return(r, IF res[r].error THEN "error" ELSE "end")
     \/ ~NoFetch(r) /\ FetchFails(r) /\ Return(r, "error")
  /\ HandNothing

(* blockBase and blockRows mean nothing without blockValid. *)
NoBlockOf(valid) == Access(valid, FALSE, 0, 0)

Row(r, valid) == api' = [api EXCEPT ![r] = NoBlockOf(valid)]

FetchRow(r) ==
  /\ r \in open
  /\ \/ (NextRow(r) \/ FetchedRow(r)) /\ Row(r, TRUE)
     \/ NoRow(r) /\ Row(r, FALSE)
  /\ UNCHANGED <<up, lastDb, open, total, dropped>>

-----------------------------------------------------------------------------
(* etdb_fetch_block(): the rest of the batch, or the whole next one.       *)

WholeBatch(r) == res[r].batch                                    \* mutant
Rest(r) == Rows(res[r].batch.of, res[r].batch.from + res[r].cursor,
                res[r].batch.n - res[r].cursor)

AtCursor(cursor, n)  == cursor                                   \* mutant
BlockBase(cursor, n) == cursor - n

Block(r, cursor, n) ==
  api' = [api EXCEPT ![r] = Access(FALSE, TRUE, BlockBase(cursor, n), n)]

RestOfBatch(r) ==
  /\ ~Drained(r)
  /\ Hand(r, Rest(r))
  /\ Consumed(r, res[r].batch.n)
  /\ Block(r, res[r].batch.n, Rest(r).n)
  /\ Return(r, "block")
  /\ UNCHANGED <<stream, astray>>

FetchedBlock(r) ==
  /\ Drained(r) /\ ~NoFetch(r)
  /\ \E s \in Results, k \in 1 .. MaxBatch :
       /\ Serves(s, r) /\ stream[s].next + k <= total[s]
       /\ Advance(s, k) /\ Trace(r, s)
       /\ res' = [res EXCEPT ![r] = Deserialized(r, s, k, k)]
       /\ Hand(r, NextBatch(s, k))
       /\ Block(r, k, k)
  /\ Return(r, "block")

NoBlock(r) ==
  /\ Drained(r)
  /\ \/ NoFetch(r) /\ UNCHANGED <<res, stream, astray>> /\ Return(r, "end")
     \/ ~NoFetch(r) /\ FetchFails(r) /\ Return(r, "error")
  /\ api' = [api EXCEPT ![r] = NoBlockOf(FALSE)]
  /\ HandNothing

FetchBlock(r) ==
  /\ r \in open
  /\ RestOfBatch(r) \/ FetchedBlock(r) \/ NoBlock(r)
  /\ UNCHANGED <<up, lastDb, open, total, dropped>>

-----------------------------------------------------------------------------
(* The connection breaks; the dbnodes (external) drop its streams.  A      *)
(* result keeps its stream id and its EtDBConnection, which connect() may  *)
(* open again.                                                             *)
Lose ==
  /\ MayLose /\ up
  /\ up' = FALSE
  /\ stream' = [r \in Results |-> NoStream]
  /\ UNCHANGED <<lastDb, open, total, res, api, handed, got, ret, history>>

Reconnect ==
  /\ ~up
  /\ up' = TRUE
  /\ astray' = astray \cup open
  /\ UNCHANGED <<lastDb, open, total, stream, res, api, handed, got, ret, dropped>>

Fetch(r) == FetchRow(r) \/ FetchBlock(r)

Next ==
  \/ \E r \in Results : Fetch(r) \/ \E d \in Dbs : Query(r, d)
  \/ \E d \in Dbs : Statement(d)
  \/ Lose \/ Reconnect

Spec == Init /\ [][Next]_vars

(* The application drains what it has opened: the loops of                 *)
(* tests/c_streaming_test.cpp.                                             *)
DrainingSpec == Spec /\ \A r \in Results : WF_vars(Fetch(r))

-----------------------------------------------------------------------------
(* Properties *)

TypeOK ==
  /\ up \in BOOLEAN /\ lastDb \in Dbs /\ open \subseteq Results
  /\ total \in [Results -> Nat]
  /\ stream \in [Results -> [live : BOOLEAN, db : Dbs, id : Nat, next : Nat]]
  /\ res \in [Results -> [batch : Chunk, cursor : Nat, qId : Nat,
                          ended : BOOLEAN, error : BOOLEAN]]
  /\ api \in [Results -> [rowValid : BOOLEAN, blockValid : BOOLEAN,
                          base : Nat, rows : Nat]]
  /\ handed \in [Results -> Chunk] /\ got \in [Results -> Nat]
  /\ ret \in [Results -> {"none", "row", "block", "end", "error"}]
  /\ dropped \in [Results -> Nat] /\ astray \subseteq Results

(* Rows are handed out in the order of the answer, none twice, none left   *)
(* out and none of another query, however row and block calls, batches,    *)
(* failures and other statements are mixed: from the first row on, or from *)
(* the second batch where query() rejected the first one.  Not so for a    *)
(* result gone astray: a FETCH is addressed by the latest statement, not   *)
(* by the result's own.                                                    *)
InOrder ==
  \A r \in Results \ astray :
    /\ got[r] > 0 => /\ handed[r].of = r
                     /\ handed[r].from + handed[r].n = dropped[r] + got[r]
    /\ dropped[r] + got[r] <= total[r]

(* etdbResultValue(): after etdb_fetch_block() returned n, the rows 0 ..   *)
(* n-1 that etdb_get_*() shows are the rows of that block, also when the   *)
(* block is the rest of a batch that etdb_fetch_row() has begun.           *)
BlockShown ==
  \A r \in Results :
    api[r].blockValid =>
      /\ ~api[r].rowValid /\ api[r].rows = handed[r].n
      /\ api[r].base + api[r].rows <= res[r].batch.n
      /\ handed[r] = Rows(res[r].batch.of, res[r].batch.from + api[r].base,
                          api[r].rows)

(* "Exhausted" is only reported when every row has been handed out or an   *)
(* error was reported before it, that of a rejected first batch included.  *)
EndOrError ==
  \A r \in Results \ astray :
    ret[r] = "end" => dropped[r] + got[r] = total[r] \/ res[r].error

(* A result that is drained is drained to its last row.                    *)
Delivered ==
  \A r \in Results :
    r \in open ~> dropped[r] + got[r] = total[r] \/ res[r].error \/ r \in astray

-----------------------------------------------------------------------------
(* The inductive invariant. *)

(* What the client holds and has handed out fits the answer. *)
InvClient(r) ==
  /\ res[r].batch.of = r /\ res[r].cursor <= res[r].batch.n
  /\ dropped[r] + got[r] = res[r].batch.from + res[r].cursor
  /\ res[r].batch.from + res[r].batch.n <= total[r]
  /\ got[r] > 0 => /\ handed[r].of = r
                   /\ handed[r].from + handed[r].n = dropped[r] + got[r]

(* A stream that the client believes open is open on a dbnode, at the row  *)
(* after the client's batch; one that ended well was read to its end.      *)
InvStream(r) ==
  /\ ~res[r].ended =>
       /\ r \in open /\ res[r].qId # 0
       /\ up => /\ stream[r].live /\ stream[r].id = res[r].qId
                /\ stream[r].next = res[r].batch.from + res[r].batch.n
  /\ res[r].ended /\ ~res[r].error =>
       res[r].batch.from + res[r].batch.n = total[r]

InvEnd(r) ==
  ret[r] = "end" => dropped[r] + got[r] = total[r] \/ res[r].error

(* What holds of a result gone astray as well: before its query there is   *)
(* nothing, and its dbnode knows it by an id no other stream there has.    *)
InvLive(r) ==
  /\ r \notin open =>
       /\ ret[r] = "none" /\ got[r] = 0 /\ dropped[r] = 0 /\ total[r] = 0
       /\ res[r] = OneShot(r, 0)
  /\ stream[r].live => r \in open /\ stream[r].next < total[r]

IdsUnique ==
  \A r, s \in Results :
    /\ stream[r].live /\ stream[s].live
    /\ stream[r].db = stream[s].db /\ stream[r].id = stream[s].id
    => r = s

StreamInv ==
  /\ \A r \in Results \ astray : InvClient(r) /\ InvStream(r) /\ InvEnd(r)
  /\ \A r \in Results : InvLive(r)
  /\ IdsUnique

=============================================================================
