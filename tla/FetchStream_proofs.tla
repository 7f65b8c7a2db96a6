-------------------------- MODULE FetchStream_proofs --------------------------
(***************************************************************************)
(* Proofs about FetchStream, for any number of results, databases, rows    *)
(* and batches.                                                            *)
(***************************************************************************)
EXTENDS FetchStream, TLAPS

(* Type correctness of the results, of the C layer's block and of the      *)
(* streams, for every mix of row and block calls.                          *)
THEOREM StreamTypeCorrect == Spec => []TypeOK
<1> USE StreamAssumption DEF StreamAssumption, TypeOK, Chunk, Rows, Stream, Result,
         Access, NoStream, NoBlockOf, history
<1>1. Init => TypeOK
  BY DEF Init, OneShot
<1>2. TypeOK /\ [Next]_vars => TypeOK'
  <2> SUFFICES ASSUME TypeOK, [Next]_vars PROVE TypeOK'
    OBVIOUS
  <2>1. ASSUME NEW r \in Results, NEW d \in Dbs, Query(r, d) PROVE TypeOK'
    <3>1. CASE QueryFails(r)
      BY <2>1, <3>1 DEF Query, QueryFails
    <3>2. CASE QuerySmall(r)
      BY <2>1, <3>2 DEF Query, QuerySmall, OneShot
    <3>3. CASE QueryStreams(r, d)
      BY <2>1, <3>3 DEF Query, QueryStreams
    <3> QED
      BY <2>1, <3>1, <3>2, <3>3 DEF Query
  <2>2. ASSUME NEW d \in Dbs, Statement(d) PROVE TypeOK'
    BY <2>2 DEF Statement
  <2>3. ASSUME NEW r \in Results, FetchFails(r) 
        PROVE  res' \in [Results -> [batch : Chunk, cursor : Nat, qId : Nat,
                                     ended : BOOLEAN, error : BOOLEAN]]
    <3>1. PICK b \in {res[r].batch} \cup {Emptied(res[r].batch)} :
            res' = [res EXCEPT ![r] = Result(b, b.n, res[r].qId, TRUE, TRUE)]
      BY <2>3 DEF FetchFails
    <3>2. b \in Chunk
      BY DEF Emptied
    <3> QED
      BY <3>1, <3>2
  <2>4. ASSUME NEW r \in Results, FetchRow(r) PROVE TypeOK'
    <3>1. CASE NextRow(r) /\ Row(r, TRUE)
      BY <2>4, <3>1 DEF FetchRow, NextRow, Row, RowAt, Hand,
        Consumed, Return
    <3>2. CASE FetchedRow(r) /\ Row(r, TRUE)
      BY <2>4, <3>2 DEF FetchRow, FetchedRow, Row, Hand, Return, Advance,
        Deserialized, NextBatch, EndFlag, IsEnd, Trace
    <3>3. CASE NoRow(r) /\ Row(r, FALSE)
      BY <2>3, <2>4, <3>3 DEF FetchRow, NoRow, Row, HandNothing, Return, FetchFails
    <3> QED
      BY <2>4, <3>1, <3>2, <3>3 DEF FetchRow
  <2>5. ASSUME NEW r \in Results, FetchBlock(r) PROVE TypeOK'
    <3>1. CASE RestOfBatch(r)
      BY <2>5, <3>1 DEF FetchBlock, RestOfBatch, Rest, Consumed, Block, BlockBase, Hand, Return, Drained
    <3>2. CASE FetchedBlock(r)
      <4>1. PICK s \in Results, k \in 1 .. MaxBatch :
              /\ Advance(s, k) /\ Hand(r, NextBatch(s, k)) /\ Block(r, k, k)
              /\ res' = [res EXCEPT ![r] = Deserialized(r, s, k, k)]
        BY <3>2 DEF FetchedBlock
      <4>2. k \in Nat /\ BlockBase(k, k) = 0 /\ NextBatch(s, k) \in Chunk
        BY DEF BlockBase, NextBatch
      <4>3. stream' \in [Results -> [live : BOOLEAN, db : Dbs, id : Nat, next : Nat]]
        BY <4>1, <4>2 DEF Advance, IsEnd
      <4>4. Deserialized(r, s, k, k) \in [batch : Chunk, cursor : Nat, qId : Nat,
                                         ended : BOOLEAN, error : BOOLEAN]
        BY <4>2 DEF Deserialized, EndFlag, IsEnd
      <4>5. api' \in [Results -> [rowValid : BOOLEAN, blockValid : BOOLEAN,
                                 base : Nat, rows : Nat]]
        BY <4>1, <4>2 DEF Block
      <4>6. handed' \in [Results -> Chunk] /\ got' \in [Results -> Nat]
        BY <4>1, <4>2 DEF Hand
      <4> QED
        BY <2>5, <3>2, <4>1, <4>3, <4>4, <4>5, <4>6 DEF FetchBlock, FetchedBlock, Return, Trace
    <3>3. CASE NoBlock(r)
      BY <2>3, <2>5, <3>3 DEF FetchBlock, NoBlock, HandNothing, Return, FetchFails
    <3> QED
      BY <2>5, <3>1, <3>2, <3>3 DEF FetchBlock
  <2>6. CASE Lose
    BY <2>6 DEF Lose, NoStream
  <2>7. CASE Reconnect
    BY <2>7 DEF Reconnect
  <2>8. CASE UNCHANGED vars
    BY <2>8 DEF vars
  <2> QED
    BY <2>1, <2>2, <2>4, <2>5, <2>6, <2>7, <2>8 DEF Next, Fetch
<1> QED
  BY <1>1, <1>2, PTL DEF Spec

(* A number below the modulus is its own remainder. *)
LEMMA SmallRemainder ==
  ASSUME NEW a \in Nat, NEW b \in Nat, a < b PROVE a % b = a
OBVIOUS

(* The numbers a result is made of. *)
LEMMA Numbers ==
  ASSUME TypeOK, NEW r \in Results
  PROVE  /\ res[r].batch \in Chunk /\ res[r].batch.from \in Nat
         /\ res[r].batch.n \in Nat /\ res[r].cursor \in Nat
         /\ got[r] \in Nat /\ dropped[r] \in Nat
         /\ total[r] \in Nat /\ stream[r].next \in Nat
<1>1. res[r].batch \in Chunk
  BY DEF TypeOK
<1> QED
  BY <1>1 DEF TypeOK, Chunk

(* A drained batch has been handed out to its last row. *)
LEMMA DrainedAt ==
  ASSUME TypeOK, NEW r \in Results, InvClient(r), Drained(r)
  PROVE  dropped[r] + got[r] = res[r].batch.from + res[r].batch.n
<1>1. res[r].batch.n \in Nat /\ res[r].cursor \in Nat
  BY Numbers
<1>2. res[r].cursor = res[r].batch.n
  BY <1>1 DEF InvClient, Drained
<1> QED
  BY <1>2 DEF InvClient

(* A FETCH that goes to the database of its own query, on the connection   *)
(* of that query and with an id that fits the wire, is served by its own   *)
(* stream: a dbnode gives no id twice at a time.                           *)
LEMMA ServedByOwn ==
  ASSUME TypeOK, StreamInv, NEW r \in Results, NEW s \in Results,
         ~res[r].ended, Serves(s, r), ~Misled(r)
  PROVE  /\ s = r /\ up /\ stream[r].live
         /\ stream[r].next = res[r].batch.from + res[r].batch.n
<1>1. /\ r \notin astray /\ lastDb = stream[r].db /\ ~(res[r].qId >= IdSpan)
      /\ up /\ stream[s].live /\ stream[s].db = lastDb
  BY DEF Misled, Serves
<1>2. /\ stream[r].live /\ stream[r].id = res[r].qId
      /\ stream[r].next = res[r].batch.from + res[r].batch.n
  BY <1>1 DEF StreamInv, InvStream
<1>3. stream[s].id = res[r].qId
  <2>1. res[r].qId \in Nat /\ IdSpan \in Nat
    BY StreamAssumption DEF StreamAssumption, TypeOK
  <2>2. res[r].qId < IdSpan
    BY <1>1, <2>1
  <2>3. res[r].qId % IdSpan = res[r].qId
    BY <2>1, <2>2, SmallRemainder
  <2> QED
    BY <2>3 DEF Serves, WireId
<1> QED
  BY <1>1, <1>2, <1>3 DEF StreamInv, IdsUnique

(* A step that leaves result s and its stream alone keeps what is said of  *)
(* s, opened handles and a connection that breaks included.                *)
LEMMA Others ==
  ASSUME NEW s \in Results, InvClient(s), InvStream(s), InvEnd(s),
         open \subseteq open',
         res'[s] = res[s], got'[s] = got[s], handed'[s] = handed[s],
         total'[s] = total[s], ret'[s] = ret[s], dropped'[s] = dropped[s],
         \/ up' = up /\ stream'[s] = stream[s]
         \/ up' = FALSE
  PROVE  InvClient(s)' /\ InvStream(s)' /\ InvEnd(s)'
BY DEF InvClient, InvStream, InvEnd

(* Such a step leaves a result that nothing touches as InvLive wants it.   *)
LEMMA OthersLive ==
  ASSUME NEW s \in Results, InvLive(s), open \subseteq open',
         res'[s] = res[s], got'[s] = got[s], total'[s] = total[s],
         ret'[s] = ret[s], dropped'[s] = dropped[s],
         stream'[s] = stream[s] \/ ~stream'[s].live
  PROVE  InvLive(s)'
BY DEF InvLive

(* A call on r that moves no stream and leaves the other results alone.    *)
LEMMA OneResult ==
  ASSUME StreamInv, NEW r \in open, open \subseteq Results,
         UNCHANGED <<up, open, total, stream, history>>,
         \A x \in Results \ {r} : /\ res'[x] = res[x] /\ got'[x] = got[x]
                                  /\ handed'[x] = handed[x] /\ ret'[x] = ret[x],
         r \notin astray => InvClient(r)' /\ InvStream(r)' /\ InvEnd(r)'
  PROVE  StreamInv'
<1> USE DEF history
<1>1. ASSUME NEW x \in Results \ astray'
      PROVE  InvClient(x)' /\ InvStream(x)' /\ InvEnd(x)'
  <2>1. CASE x = r
    BY <1>1, <2>1
  <2>2. CASE x # r
    <3>1. InvClient(x) /\ InvStream(x) /\ InvEnd(x)
      BY <1>1 DEF StreamInv
    <3> QED
      BY <1>1, <2>2, <3>1, Others
  <2> QED
    BY <2>1, <2>2
<1>2. ASSUME NEW x \in Results PROVE InvLive(x)'
  <2>1. InvLive(x)
    BY DEF StreamInv
  <2>2. CASE x = r
    BY <2>1, <2>2 DEF InvLive
  <2>3. CASE x # r
    BY <2>1, <2>3, OthersLive
  <2> QED
    BY <2>2, <2>3
<1>3. IdsUnique'
  BY DEF StreamInv, IdsUnique
<1> QED
  BY <1>1, <1>2, <1>3 DEF StreamInv

(* A query opens a result at its first row, or behind the rows it has      *)
(* rejected; a stream behind it takes an id that its dbnode has no use for *)
(* at the time.                                                            *)
LEMMA QueryInv ==
  ASSUME TypeOK, TypeOK', StreamInv, NEW r \in Results, NEW d \in Dbs,
         Query(r, d)
  PROVE  StreamInv'
<1> USE DEF Rows, Result, Stream, OneShot
<1>1. /\ r \notin open /\ open' = open \cup {r}
      /\ UNCHANGED <<up, api, handed, got, ret, astray>>
  BY DEF Query, TypeOK
<1>2. ASSUME NEW s \in Results \ {r}
      PROVE  /\ res'[s] = res[s] /\ stream'[s] = stream[s]
             /\ total'[s] = total[s] /\ dropped'[s] = dropped[s]
  BY DEF Query, QueryFails, QuerySmall, QueryStreams, TypeOK
<1>3. ASSUME NEW s \in Results \ {r}
      PROVE  /\ InvLive(s)'
             /\ s \notin astray' => InvClient(s)' /\ InvStream(s)' /\ InvEnd(s)'
  <2>1. InvLive(s) /\ (s \notin astray => InvClient(s) /\ InvStream(s) /\ InvEnd(s))
    BY DEF StreamInv
  <2>2. InvLive(s)'
    BY <1>1, <1>2, <2>1, OthersLive
  <2>3. s \notin astray' => InvClient(s)' /\ InvStream(s)' /\ InvEnd(s)'
    BY <1>1, <1>2, <2>1, Others
  <2> QED
    BY <2>2, <2>3
<1>4. /\ ret[r] = "none" /\ got[r] = 0 /\ dropped[r] = 0 /\ total[r] = 0
      /\ res[r] = OneShot(r, 0)
  BY <1>1 DEF StreamInv, InvLive
<1>5. InvLive(r) /\ ~stream[r].live
  BY <1>1 DEF StreamInv, InvLive
<1>6. InvEnd(r)'
  BY <1>1, <1>4 DEF InvEnd
<1>7. InvClient(r)' /\ InvStream(r)' /\ InvLive(r)' /\ IdsUnique'
  <2>1. CASE QueryFails(r)
    BY <1>1, <1>4, <1>5, <2>1
    DEF QueryFails, StreamInv, InvClient, InvStream, InvLive, IdsUnique
  <2>2. CASE QuerySmall(r)
    <3>1. PICK n \in 0 .. MaxBatch :
            /\ total' = [total EXCEPT ![r] = n]
            /\ res' = [res EXCEPT ![r] = OneShot(r, n)]
            /\ UNCHANGED <<stream, dropped>>
      BY <2>2 DEF QuerySmall
    <3>2. /\ n \in Nat /\ total'[r] = n /\ res'[r] = OneShot(r, n)
          /\ got'[r] = 0 /\ dropped'[r] = 0 /\ ~stream'[r].live /\ r \in open'
      BY <1>1, <1>4, <1>5, <3>1, StreamAssumption
      DEF StreamAssumption, TypeOK, InvLive
    <3> QED
      BY <3>1, <3>2 DEF StreamInv, InvClient, InvStream, InvLive, IdsUnique
  <2>3. CASE QueryStreams(r, d)
    <3>1. PICK n \in 1 .. MaxRows, k \in 1 .. MaxBatch, q \in IdsOf[d],
               ok \in Accepts :
            /\ k < n /\ ~IdInUse(d, q)
            /\ total' = [total EXCEPT ![r] = n]
            /\ stream' = [stream EXCEPT ![r] = Stream(TRUE, d, q, k)]
            /\ res' = [res EXCEPT ![r] =
                         Result(IF ok THEN Rows(r, 0, k) ELSE Rows(r, k, 0),
                                0, q, FALSE, FALSE)]
            /\ dropped' = [dropped EXCEPT ![r] = IF ok THEN 0 ELSE k]
      BY <2>3 DEF QueryStreams
    <3>2. q # 0 /\ n \in Nat /\ k \in Nat
      BY StreamAssumption DEF StreamAssumption
    <3>3. /\ res'[r] = Result(IF ok THEN Rows(r, 0, k) ELSE Rows(r, k, 0),
                              0, q, FALSE, FALSE)
          /\ total'[r] = n /\ stream'[r] = Stream(TRUE, d, q, k)
          /\ dropped'[r] = (IF ok THEN 0 ELSE k) /\ got'[r] = 0 /\ r \in open'
      BY <1>1, <1>4, <3>1 DEF TypeOK
    <3>4. InvClient(r)'
      BY <3>1, <3>2, <3>3 DEF InvClient
    <3>5. InvStream(r)' /\ InvLive(r)'
      BY <3>1, <3>2, <3>3 DEF InvStream, InvLive
    <3>6. IdsUnique'
      BY <1>2, <3>1, <3>3 DEF IdInUse, StreamInv, IdsUnique
    <3> QED
      BY <3>4, <3>5, <3>6
  <2> QED
    BY <2>1, <2>2, <2>3 DEF Query
<1> QED
  BY <1>3, <1>6, <1>7 DEF StreamInv

(* A batch that arrives continues the one before it, whether its first row *)
(* or all of it is handed out at once; where the FETCH was misled, the     *)
(* result that asked and the one whose stream it met have gone astray.     *)
LEMMA FetchedInv ==
  ASSUME TypeOK, TypeOK', StreamInv, NEW r \in open,
         NEW s \in Results, NEW k \in 1 .. MaxBatch, NEW c \in 1 .. k,
         Drained(r), ~NoFetch(r), Serves(s, r),
         stream[s].next + k <= total[s], Advance(s, k), Trace(r, s),
         res' = [res EXCEPT ![r] = Deserialized(r, s, k, c)],
         Hand(r, Rows(s, stream[s].next, c)),
         ret'[r] # "end", \A x \in Results \ {r} : ret'[x] = ret[x],
         UNCHANGED <<up, open, total, dropped>>
  PROVE  StreamInv'
<1> USE DEF Rows, Result, Stream
<1>0. r \in Results /\ k \in Nat /\ c \in Nat /\ c <= k /\ c > 0
  BY StreamAssumption DEF StreamAssumption, TypeOK
<1>1. stream[s].live /\ InvLive(s)
  BY DEF Serves, StreamInv
<1>2. /\ stream'[s] = IF IsEnd(s, k) THEN NoStream
                      ELSE Stream(TRUE, stream[s].db, stream[s].id,
                                  stream[s].next + k)
      /\ \A x \in Results \ {s} : stream'[x] = stream[x]
  BY DEF Advance, TypeOK
<1>3. \A x \in Results \ {r} :
        res'[x] = res[x] /\ got'[x] = got[x] /\ handed'[x] = handed[x]
  BY DEF Hand, TypeOK
<1>4. ~IsEnd(s, k) => stream[s].next + k < total[s]
  <2>1. stream[s].next \in Nat /\ total[s] \in Nat
    BY Numbers
  <2> QED
    BY ONLY <1>0, <2>1, stream[s].next + k <= total[s] DEF IsEnd
<1>5. ASSUME NEW x \in Results PROVE InvLive(x)'
  <2>1. InvLive(x)
    BY DEF StreamInv
  <2>2. x = r \/ x = s => x \in open
    BY <1>1 DEF InvLive
  <2>3. stream'[x].live => stream'[x].next < total[x]
    BY <1>2, <1>4, <2>1 DEF InvLive, NoStream
  <2>4. stream'[x].live => x \in open
    BY <1>2, <2>1, <2>2 DEF InvLive
  <2> QED
    BY <1>3, <2>1, <2>2, <2>3, <2>4 DEF InvLive
<1>6. IdsUnique'
  <2>1. \A x \in Results : stream'[x].live =>
          stream[x].live /\ stream'[x].db = stream[x].db /\ stream'[x].id = stream[x].id
    BY <1>1, <1>2 DEF NoStream
  <2> QED
    BY <2>1 DEF StreamInv, IdsUnique
<1>7. ASSUME NEW x \in Results \ {r, s}, x \notin astray'
      PROVE  InvClient(x)' /\ InvStream(x)' /\ InvEnd(x)'
  <2>1. x \notin astray
    BY <1>7 DEF Trace
  <2>2. InvClient(x) /\ InvStream(x) /\ InvEnd(x)
    BY <2>1 DEF StreamInv
  <2> QED
    BY <1>2, <1>3, <2>2, Others
<1>8. CASE Misled(r)
  <2>1. astray' = astray \cup {r, s}
    BY <1>8 DEF Trace
  <2> QED
    BY <1>5, <1>6, <1>7, <2>1 DEF StreamInv
<1>9. CASE ~Misled(r)
  <2>1. /\ s = r /\ up /\ stream[r].live
        /\ stream[r].next = res[r].batch.from + res[r].batch.n
    BY <1>0, <1>9, ServedByOwn DEF NoFetch
  <2>2. InvClient(r) /\ InvStream(r) /\ InvEnd(r)
    BY <1>0, <1>9 DEF StreamInv, Misled
  <2>3. dropped[r] + got[r] = stream[r].next
    BY <1>0, <2>1, <2>2, DrainedAt
  <2>4. /\ res'[r] = Result(Rows(r, stream[r].next, k), c, res[r].qId,
                           IsEnd(r, k), res[r].error)
        /\ got'[r] = got[r] + c
        /\ handed'[r] = Rows(r, stream[r].next, c)
    BY <1>0, <2>1 DEF Deserialized, NextBatch, EndFlag, Hand, TypeOK
  <2>5. /\ got[r] \in Nat /\ dropped[r] \in Nat /\ stream[r].next \in Nat
        /\ total[r] \in Nat /\ stream[r].next + k <= total[r]
    BY <1>0, <2>1, Numbers
  <2>6. dropped[r] + got'[r] = stream[r].next + c
    BY <1>0, <2>3, <2>4, <2>5
  <2>7. InvClient(r)'
    BY <1>0, <2>4, <2>5, <2>6 DEF InvClient
  <2>8. InvStream(r)'
    <3>1. res[r].qId # 0 /\ stream[r].id = res[r].qId
      BY <1>0, <2>1, <2>2 DEF InvStream, NoFetch
    <3>2. CASE IsEnd(r, k)
      <4>1. res'[r].ended /\ res'[r].batch = Rows(r, stream[r].next, k)
        BY ONLY <2>4, <3>2 DEF Result
      <4>2. /\ stream[r].next + k = total[r] /\ total'[r] = total[r]
            /\ res'[r].batch.from = stream[r].next /\ res'[r].batch.n = k
        BY <3>2, <4>1 DEF IsEnd
      <4> QED
        BY ONLY <4>1, <4>2 DEF InvStream
    <3>3. CASE ~IsEnd(r, k)
      <4>1. stream'[r] = Stream(TRUE, stream[r].db, stream[r].id, stream[r].next + k)
        BY <1>2, <2>1, <3>3
      <4> QED
        BY <2>4, <2>5, <3>1, <3>3, <4>1 DEF InvStream
    <3> QED
      BY <3>2, <3>3
  <2>9. InvEnd(r)'
    BY DEF InvEnd
  <2> QED
    BY <1>5, <1>6, <1>7, <2>1, <2>7, <2>8, <2>9 DEF StreamInv
<1> QED
  BY <1>8, <1>9

(* A call that finds nothing more reports the end only after the last row  *)
(* or after an error.                                                      *)
LEMMA NothingInv ==
  ASSUME TypeOK, TypeOK', StreamInv, NEW r \in open, Drained(r),
         \/ NoFetch(r) /\ UNCHANGED <<res, stream, astray>>
         \/ ~NoFetch(r) /\ FetchFails(r) /\ ret'[r] = "error",
         HandNothing, \A x \in Results \ {r} : ret'[x] = ret[x],
         UNCHANGED <<up, open, total, dropped>>
  PROVE  StreamInv'
<1> USE DEF Rows, Result
<1>1. r \in Results /\ open \subseteq Results
  BY DEF TypeOK
<1>2. UNCHANGED <<stream, astray, got, handed>>
  BY DEF FetchFails, HandNothing
<1>3. \A x \in Results \ {r} : res'[x] = res[x]
  BY <1>1 DEF FetchFails, TypeOK
<1>4. ASSUME r \notin astray PROVE InvClient(r)' /\ InvStream(r)' /\ InvEnd(r)'
  <2>1. InvClient(r) /\ InvStream(r) /\ InvEnd(r)
    BY <1>1, <1>4 DEF StreamInv
  <2>2. dropped[r] + got[r] = res[r].batch.from + res[r].batch.n
    BY <1>1, <2>1, DrainedAt
  <2>3. CASE NoFetch(r) /\ UNCHANGED <<res, stream>>
    <3>1. res[r].ended
      BY <2>1, <2>3 DEF NoFetch, InvStream
    <3>2. dropped[r] + got[r] = total[r] \/ res[r].error
      BY <2>1, <2>2, <3>1 DEF InvStream
    <3> QED
      BY <1>2, <2>1, <2>3, <3>2 DEF InvClient, InvStream, InvEnd
  <2>4. CASE ~NoFetch(r) /\ FetchFails(r) /\ ret'[r] = "error"
    <3>1. PICK b \in {res[r].batch, Emptied(res[r].batch)} :
            res' = [res EXCEPT ![r] = Result(b, b.n, res[r].qId, TRUE, TRUE)]
      BY <2>4 DEF FetchFails
    <3>2. /\ res[r].batch.from \in Nat /\ res[r].batch.n \in Nat
          /\ got[r] \in Nat /\ dropped[r] \in Nat /\ total[r] \in Nat
      BY <1>1, Numbers
    <3>3. /\ b.of = r /\ b.n \in Nat
          /\ b.from + b.n = dropped[r] + got[r] /\ b.from + b.n <= total[r]
      <4>1. CASE b = res[r].batch
        BY <2>1, <2>2, <3>2, <4>1 DEF InvClient
      <4>2. CASE b = Emptied(res[r].batch)
        BY <2>1, <2>2, <3>2, <4>2 DEF InvClient, Emptied
      <4> QED
        BY <3>1, <4>1, <4>2
    <3>4. res'[r] = Result(b, b.n, res[r].qId, TRUE, TRUE)
      BY <1>1, <3>1 DEF TypeOK
    <3> QED
      BY <1>2, <2>1, <2>4, <3>3, <3>4 DEF InvClient, InvStream, InvEnd
  <2> QED
    BY <2>3, <2>4
<1> QED
  BY <1>1, <1>2, <1>3, <1>4, OneResult DEF history

(* Rows left in the batch are handed out without a round trip. *)
LEMMA RestInv ==
  ASSUME TypeOK, TypeOK', StreamInv, NEW r \in open, ~Drained(r),
         NEW c \in Nat, res[r].cursor < c, c <= res[r].batch.n,
         Consumed(r, c),
         Hand(r, Rows(res[r].batch.of, res[r].batch.from + res[r].cursor,
                      c - res[r].cursor)),
         ret'[r] # "end", \A x \in Results \ {r} : ret'[x] = ret[x],
         UNCHANGED <<up, open, total, stream, history>>
  PROVE  StreamInv'
<1> USE DEF Rows, Result
<1>1. r \in Results /\ open \subseteq Results
  BY DEF TypeOK
<1>2. /\ res'[r] = Result(res[r].batch, c, res[r].qId, res[r].ended,
                         res[r].error)
      /\ handed'[r] = Rows(res[r].batch.of, res[r].batch.from + res[r].cursor,
                           c - res[r].cursor)
      /\ got'[r] = got[r] + (c - res[r].cursor)
  BY <1>1 DEF Consumed, Hand, TypeOK
<1>3. \A x \in Results \ {r} :
        res'[x] = res[x] /\ got'[x] = got[x] /\ handed'[x] = handed[x]
  BY <1>1 DEF Consumed, Hand, TypeOK
<1>4. ASSUME r \notin astray PROVE InvClient(r)' /\ InvStream(r)' /\ InvEnd(r)'
  <2>1. InvClient(r) /\ InvStream(r) /\ InvEnd(r)
    BY <1>1, <1>4 DEF StreamInv
  <2>2. /\ res[r].cursor \in Nat /\ res[r].batch.from \in Nat
        /\ res[r].batch.n \in Nat /\ got[r] \in Nat /\ dropped[r] \in Nat
    BY <1>1, Numbers
  <2>3. InvClient(r)'
    BY <1>2, <2>1, <2>2 DEF InvClient, history
  <2> QED
    BY <1>2, <2>1, <2>3 DEF InvStream, InvEnd, history
<1> QED
  BY <1>1, <1>3, <1>4, OneResult

(* A stream is where the client believes it to be and holds the rows that  *)
(* follow its batch, for every result that has not gone astray: whatever   *)
(* ids the dbnodes hand out, however often the connection breaks and is    *)
(* opened again.                                                           *)
THEOREM StreamInvariant == Spec => []StreamInv
<1>1. Init => StreamInv
  <2> SUFFICES ASSUME Init PROVE StreamInv
    OBVIOUS
  <2> QED
    BY DEF Init, NoStream, OneShot, Rows, Result, Stream, StreamInv, InvClient,
      InvStream, InvEnd, InvLive, IdsUnique, history
<1>2. TypeOK /\ TypeOK' /\ StreamInv /\ [Next]_vars => StreamInv'
  <2> SUFFICES ASSUME TypeOK, TypeOK', StreamInv, [Next]_vars PROVE StreamInv'
    OBVIOUS
  <2>1. ASSUME NEW r \in Results, NEW d \in Dbs, Query(r, d) PROVE StreamInv'
    BY <2>1, QueryInv
  <2>2. ASSUME NEW r \in Results, FetchRow(r) PROVE StreamInv'
    <3>1. r \in open /\ UNCHANGED <<up, open, total, dropped>>
      BY <2>2 DEF FetchRow
    <3>2. CASE NextRow(r)
      <4>1. /\ res[r].cursor + 1 \in Nat /\ res[r].cursor < res[r].cursor + 1
            /\ res[r].cursor + 1 <= res[r].batch.n
            /\ (res[r].cursor + 1) - res[r].cursor = 1
        BY <3>2, Numbers DEF NextRow, Drained
      <4>2. ret'[r] # "end" /\ \A x \in Results \ {r} : ret'[x] = ret[x]
        BY <3>2 DEF NextRow, Return, TypeOK
      <4> QED
        BY <3>1, <3>2, <4>1, <4>2, RestInv DEF NextRow, RowAt, history
    <3>3. CASE FetchedRow(r)
      <4>1. ret'[r] # "end" /\ \A x \in Results \ {r} : ret'[x] = ret[x]
        BY <3>3 DEF FetchedRow, Return, TypeOK
      <4>2. \A k \in 1 .. MaxBatch : 1 \in 1 .. k
        BY StreamAssumption DEF StreamAssumption
      <4> QED
        BY <3>1, <3>3, <4>1, <4>2, FetchedInv DEF FetchedRow
    <3>4. CASE NoRow(r)
      <4>1. \A x \in Results \ {r} : ret'[x] = ret[x]
        BY <3>4 DEF NoRow, Return, TypeOK
      <4>2. ~NoFetch(r) => ret'[r] = "error"
        BY <3>4 DEF NoRow, Return, TypeOK
      <4> QED
        BY <3>1, <3>4, <4>1, <4>2, NothingInv DEF NoRow
    <3> QED
      BY <2>2, <3>2, <3>3, <3>4 DEF FetchRow
  <2>3. ASSUME NEW r \in Results, FetchBlock(r) PROVE StreamInv'
    <3>1. r \in open /\ UNCHANGED <<up, open, total, dropped>>
      BY <2>3 DEF FetchBlock
    <3>2. CASE RestOfBatch(r)
      <4>1. /\ res[r].batch.n \in Nat /\ res[r].cursor < res[r].batch.n
            /\ res[r].batch.n <= res[r].batch.n
        BY <3>2, Numbers DEF RestOfBatch, Drained
      <4>2. ret'[r] # "end" /\ \A x \in Results \ {r} : ret'[x] = ret[x]
        BY <3>2 DEF RestOfBatch, Return, TypeOK
      <4> QED
        BY <3>1, <3>2, <4>1, <4>2, RestInv DEF RestOfBatch, Rest, history
    <3>3. CASE FetchedBlock(r)
      <4>1. ret'[r] # "end" /\ \A x \in Results \ {r} : ret'[x] = ret[x]
        BY <3>3 DEF FetchedBlock, Return, TypeOK
      <4>2. \A k \in 1 .. MaxBatch : k \in 1 .. k
        BY StreamAssumption DEF StreamAssumption
      <4> QED
        BY <3>1, <3>3, <4>1, <4>2, FetchedInv DEF FetchedBlock, NextBatch
    <3>4. CASE NoBlock(r)
      <4>1. \A x \in Results \ {r} : ret'[x] = ret[x]
        BY <3>4 DEF NoBlock, Return, TypeOK
      <4>2. ~NoFetch(r) => ret'[r] = "error"
        BY <3>4 DEF NoBlock, Return, TypeOK
      <4> QED
        BY <3>1, <3>4, <4>1, <4>2, NothingInv DEF NoBlock
    <3> QED
      BY <2>3, <3>2, <3>3, <3>4 DEF FetchBlock
  <2>4. CASE Lose \/ Reconnect
    <3>1. /\ UNCHANGED <<open, total, res, got, handed, ret, dropped>>
          /\ astray \subseteq astray'
      BY <2>4 DEF Lose, Reconnect, history
    <3>2. ASSUME NEW s \in Results PROVE InvLive(s)'
      <4>1. InvLive(s)
        BY DEF StreamInv
      <4>2. stream'[s] = stream[s] \/ ~stream'[s].live
        BY <2>4 DEF Lose, Reconnect, NoStream, Stream
      <4> QED
        BY <3>1, <4>1, <4>2, OthersLive
    <3>3. ASSUME NEW s \in Results \ astray'
          PROVE  InvClient(s)' /\ InvStream(s)' /\ InvEnd(s)'
      <4>1. InvClient(s) /\ InvStream(s) /\ InvEnd(s)
        BY <3>1 DEF StreamInv
      <4>2. CASE Lose
        BY <3>1, <4>1, <4>2, Others DEF Lose
      <4>3. CASE Reconnect
        <5>1. s \notin open /\ res[s].ended
          BY <4>1, <4>3 DEF Reconnect, InvStream
        <5> QED
          BY <3>1, <4>1, <5>1 DEF InvClient, InvStream, InvEnd
      <4> QED
        BY <2>4, <4>2, <4>3
    <3>4. IdsUnique'
      BY <2>4 DEF Lose, Reconnect, NoStream, Stream, StreamInv, IdsUnique
    <3> QED
      BY <3>2, <3>3, <3>4 DEF StreamInv
  <2>5. CASE (\E d \in Dbs : Statement(d)) \/ UNCHANGED vars
    BY <2>5 DEF Statement, vars, history, StreamInv, InvClient, InvStream, InvEnd,
      InvLive, IdsUnique
  <2> QED
    BY <2>1, <2>2, <2>3, <2>4, <2>5 DEF Next, Fetch
<1> QED
  BY <1>1, <1>2, StreamTypeCorrect, PTL DEF Spec

(* Rows are handed out in the order of the answer, none twice, none left   *)
(* out and none of another query, the rows of a rejected first batch and   *)
(* the results gone astray apart.                                          *)
THEOREM StreamInOrder == Spec => []InOrder
<1>1. TypeOK /\ StreamInv => InOrder
  <2> SUFFICES ASSUME TypeOK, StreamInv, NEW r \in Results \ astray
               PROVE  /\ got[r] > 0 =>
                           /\ handed[r].of = r
                           /\ handed[r].from + handed[r].n = dropped[r] + got[r]
                      /\ dropped[r] + got[r] <= total[r]
    BY DEF InOrder
  <2>1. InvClient(r)
    BY DEF StreamInv
  <2> QED
    BY <2>1, Numbers DEF InvClient
<1> QED
  BY <1>1, StreamTypeCorrect, StreamInvariant, PTL

(* The end is only reported after the last row, or after an error.         *)
THEOREM StreamEnd == Spec => []EndOrError
<1>1. StreamInv => EndOrError
  BY DEF StreamInv, InvEnd, EndOrError
<1> QED
  BY <1>1, StreamInvariant, PTL

(* What etdb_get_*() shows belongs to a result whose query has returned.   *)
BlockInv ==
  BlockShown /\ \A r \in Results : api[r].blockValid => r \in open

(* After etdb_fetch_block() returned n, the rows 0 .. n-1 that             *)
(* etdb_get_*() shows are the rows of that block: whichever stream the     *)
(* batch came from, and also when it is the rest of a batch begun row by   *)
(* row.                                                                    *)
THEOREM StreamBlockShown == Spec => []BlockShown
<1>1. Init => BlockInv
  BY DEF Init, BlockInv, BlockShown, Access
<1>2. TypeOK /\ BlockInv /\ [Next]_vars => BlockInv'
  <2> SUFFICES ASSUME TypeOK, BlockInv, [Next]_vars PROVE BlockInv'
    OBVIOUS
  <2> USE DEF TypeOK, Chunk, Rows, Access
  <2>1. ASSUME NEW r \in Results, NEW d \in Dbs, Query(r, d) PROVE BlockInv'
    <3>1. ~api[r].blockValid /\ open \subseteq open' /\ UNCHANGED <<api, handed>>
      BY <2>1 DEF Query, BlockInv
    <3>2. \A s \in Results \ {r} : res'[s] = res[s]
      BY <2>1 DEF Query, QueryFails, QuerySmall, QueryStreams
    <3> QED
      BY <3>1, <3>2 DEF BlockInv, BlockShown
  <2>2. ASSUME NEW r \in Results, FetchRow(r) PROVE BlockInv'
    <3>1. ~api'[r].blockValid /\ UNCHANGED open
      BY <2>2 DEF FetchRow, Row, NoBlockOf
    <3>2. \A s \in Results \ {r} :
            api'[s] = api[s] /\ res'[s] = res[s] /\ handed'[s] = handed[s]
      <4>1. CASE NextRow(r)
        BY <2>2, <4>1 DEF FetchRow, Row, NextRow, Hand, Consumed
      <4>2. CASE FetchedRow(r)
        <5>1. PICK b \in Results, k \in 1 .. MaxBatch :
                /\ res' = [res EXCEPT ![r] = Deserialized(r, b, k, 1)]
                /\ Hand(r, Rows(b, stream[b].next, 1))
          BY <4>2 DEF FetchedRow
        <5>2. api' = [api EXCEPT ![r] = NoBlockOf(TRUE)] \/ api' = [api EXCEPT ![r] = NoBlockOf(FALSE)]
          BY <2>2 DEF FetchRow, Row
        <5> QED
          BY <5>1, <5>2 DEF Hand
      <4>3. CASE NoRow(r)
        BY <2>2, <4>3 DEF FetchRow, Row, NoRow, HandNothing, FetchFails
      <4> QED
        BY <2>2, <4>1, <4>2, <4>3 DEF FetchRow
    <3> QED
      BY <3>1, <3>2 DEF BlockInv, BlockShown
  <2>3. ASSUME NEW r \in Results, FetchBlock(r) PROVE BlockInv'
    <3>1. r \in open /\ UNCHANGED open
      BY <2>3 DEF FetchBlock
    <3>2. \A s \in Results \ {r} :
            api'[s] = api[s] /\ res'[s] = res[s] /\ handed'[s] = handed[s]
      <4>1. CASE RestOfBatch(r)
        BY <4>1 DEF RestOfBatch, Block, Hand, Consumed
      <4>2. CASE FetchedBlock(r)
        BY <4>2 DEF FetchedBlock, Block, Hand
      <4>3. CASE NoBlock(r)
        BY <4>3 DEF NoBlock, HandNothing, FetchFails
      <4> QED
        BY <2>3, <4>1, <4>2, <4>3 DEF FetchBlock
    <3>3. CASE RestOfBatch(r)
      <4>1. /\ api'[r] = Access(FALSE, TRUE,
                         BlockBase(res[r].batch.n, Rest(r).n), Rest(r).n)
            /\ handed'[r] = Rest(r) /\ res'[r].batch = res[r].batch
        BY <3>3 DEF RestOfBatch, Block, Hand, Consumed, Result
      <4>2. /\ res[r].cursor \in Nat /\ res[r].batch.n \in Nat
            /\ res[r].cursor < res[r].batch.n
        BY <3>3 DEF RestOfBatch, Drained
      <4>3. /\ BlockBase(res[r].batch.n, Rest(r).n) = res[r].cursor
            /\ res[r].cursor + Rest(r).n = res[r].batch.n
        BY <4>2 DEF BlockBase, Rest
      <4>4. /\ ~api'[r].rowValid /\ api'[r].base = res[r].cursor
            /\ api'[r].rows = Rest(r).n /\ handed'[r].n = Rest(r).n
            /\ handed'[r] = Rows(res'[r].batch.of, res'[r].batch.from + res[r].cursor,
                                 Rest(r).n)
            /\ res'[r].batch.n = res[r].batch.n /\ res[r].batch.n <= res[r].batch.n
        BY <4>1, <4>2, <4>3 DEF Rest
      <4>5. \A x \in Results \ {r} :
              api'[x].blockValid => x \in open' /\ api[x].blockValid
        BY <3>1, <3>2 DEF BlockInv
      <4>6. \A x \in Results \ {r} : api'[x].blockValid =>
              /\ ~api'[x].rowValid /\ api'[x].rows = handed'[x].n
              /\ api'[x].base + api'[x].rows <= res'[x].batch.n
              /\ handed'[x] = Rows(res'[x].batch.of,
                                   res'[x].batch.from + api'[x].base, api'[x].rows)
        BY <3>2 DEF BlockInv, BlockShown
      <4>7. /\ api'[r].rows = handed'[r].n
            /\ api'[r].base + api'[r].rows <= res'[r].batch.n
            /\ handed'[r] = Rows(res'[r].batch.of,
                                 res'[r].batch.from + api'[r].base, api'[r].rows)
        BY <4>2, <4>3, <4>4
      <4> QED
        BY <3>1, <4>4, <4>5, <4>6, <4>7 DEF BlockInv, BlockShown
    <3>4. CASE FetchedBlock(r)
      <4>1. PICK s \in Results, k \in 1 .. MaxBatch :
              /\ res' = [res EXCEPT ![r] = Deserialized(r, s, k, k)]
              /\ Hand(r, NextBatch(s, k)) /\ Block(r, k, k)
        BY <3>4 DEF FetchedBlock
      <4>2. /\ k \in Nat /\ stream[s].next \in Nat /\ BlockBase(k, k) = 0
            /\ stream[s].next + 0 = stream[s].next /\ 0 + k = k /\ k <= k
        BY StreamAssumption DEF StreamAssumption, BlockBase
      <4>3. /\ api'[r] = Access(FALSE, TRUE, 0, k)
            /\ handed'[r] = NextBatch(s, k) /\ res'[r].batch = NextBatch(s, k)
        BY <4>1, <4>2 DEF Hand, Block, Deserialized, Result
      <4>4. /\ ~api'[r].rowValid /\ api'[r].base = 0 /\ api'[r].rows = k
            /\ res'[r].batch.of = s /\ res'[r].batch.from = stream[s].next
            /\ res'[r].batch.n = k /\ handed'[r] = Rows(s, stream[s].next, k)
            /\ handed'[r].n = k
        BY <4>3 DEF NextBatch
      <4>5. \A x \in Results \ {r} :
              api'[x].blockValid => x \in open' /\ api[x].blockValid
        BY <3>1, <3>2 DEF BlockInv
      <4>6. \A x \in Results \ {r} : api'[x].blockValid =>
              /\ ~api'[x].rowValid /\ api'[x].rows = handed'[x].n
              /\ api'[x].base + api'[x].rows <= res'[x].batch.n
              /\ handed'[x] = Rows(res'[x].batch.of,
                                   res'[x].batch.from + api'[x].base, api'[x].rows)
        BY <3>2 DEF BlockInv, BlockShown
      <4>7. /\ api'[r].rows = handed'[r].n
            /\ api'[r].base + api'[r].rows <= res'[r].batch.n
            /\ handed'[r] = Rows(res'[r].batch.of,
                                 res'[r].batch.from + api'[r].base, api'[r].rows)
        BY <4>2, <4>4
      <4> QED
        BY <3>1, <4>4, <4>5, <4>6, <4>7 DEF BlockInv, BlockShown
    <3>5. CASE NoBlock(r)
      BY <3>1, <3>2, <3>5 DEF NoBlock, NoBlockOf, BlockInv, BlockShown
    <3> QED
      BY <2>3, <3>3, <3>4, <3>5 DEF FetchBlock
  <2>4. CASE (\E d \in Dbs : Statement(d)) \/ Lose \/ Reconnect \/ UNCHANGED vars
    BY <2>4 DEF Statement, Lose, Reconnect, vars, history, BlockInv, BlockShown
  <2> QED
    BY <2>1, <2>2, <2>3, <2>4 DEF Next, Fetch
<1>3. BlockInv => BlockShown
  BY DEF BlockInv
<1> QED
  BY <1>1, <1>2, <1>3, StreamTypeCorrect, PTL DEF Spec

=============================================================================
