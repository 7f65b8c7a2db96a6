------------------------- MODULE TableInsert_proofs -------------------------
(***************************************************************************)
(* Proofs about TableInsert, for every set of databases, tables and uids,  *)
(* and then about RowPath with InsertText, for every schema, every text,   *)
(* every width of the types and every limit of a message: what is packed   *)
(* of a text is all of it, and what the program reads back is what was     *)
(* written.                                                                *)
(***************************************************************************)
EXTENDS TableInsert, RowPath, Sums_proofs

Cached == Uids \cup {NoUid}

(* What TypeOK and CacheSound say of the two caches. *)
MetaSound ==
  /\ DOMAIN meta \subseteq Written /\ \A k \in DOMAIN meta : meta[k] \in Uids
  /\ \A k \in DOMAIN meta : k[1] # NoDb => Owner[meta[k]] = k
UidsSound ==
  /\ DOMAIN uids \subseteq Written /\ \A k \in DOMAIN uids : uids[k] \in Uids
  /\ \A k \in DOMAIN uids : k[1] # NoDb => Owner[uids[k]] = k

TypeServer ==
  /\ table \in [Tables -> Uids \cup {NoUid}] /\ fresh \subseteq Uids
  /\ \A n \in Tables : table[n] # NoUid => Owner[table[n]] = n
TypeStmt ==
  /\ stmt.state \in States /\ stmt.named \in Written
  /\ stmt.uid \in Uids \cup {NoUid} /\ stmt.dbId \in Nat
  /\ stmt.kept \in BOOLEAN /\ stmt.batch \in Nat

Inv == /\ TypeServer /\ db \in Dbs \cup {NoDb} /\ dbIds \subseteq Dbs
       /\ MetaSound /\ UidsSound /\ TypeStmt
       /\ last.named \in Written /\ last.dbId \in Nat

(* The parts of Inv are those of TypeOK and CacheSound together. *)
LEMMA InvIs == Inv <=> TypeOK /\ CacheSound
  BY Zenon DEF Inv, TypeOK, CacheSound, MetaSound, UidsSound, TypeServer, TypeStmt

(* An entry put under the bare name and the name of its owner is sound.    *)
LEMMA PutSound ==
  ASSUME NEW n \in Tables, NEW u \in Uids, Owner[u] = n,
         NEW cache, DOMAIN cache \subseteq Written,
         \A k \in DOMAIN cache : cache[k] \in Uids,
         \A k \in DOMAIN cache : k[1] # NoDb => Owner[cache[k]] = k,
         NEW new, new = Put(cache, {<<NoDb, n[2]>>, n}, u)
  PROVE  /\ DOMAIN new \subseteq Written
         /\ \A k \in DOMAIN new : new[k] \in Uids
         /\ \A k \in DOMAIN new : k[1] # NoDb => Owner[new[k]] = k
<1>1. n \in Dbs \X Names /\ <<NoDb, n[2]>> \in Written /\ n \in Written
  BY DEF Tables, Written
<1>2. QED
  BY <1>1 DEF Put

(* getTableMeta() keeps the cache sound and returns its table's metadata.  *)
LEMMA GetMeta ==
  ASSUME Inv, NEW n \in Written, NEW u \in Cached, GetTableMeta(n, u)
  PROVE  MetaSound' /\ (u # NoUid /\ n[1] # NoDb => Owner[u] = n)
<1>1. CASE n \in DOMAIN meta /\ u = meta[n] /\ UNCHANGED meta
  BY <1>1 DEF Inv, MetaSound
<1>2. CASE NotFetched(n, u)
  BY <1>2 DEF NotFetched, Inv, MetaSound
<1>3. CASE Fetched(n, u)
  <2>1. n \in Tables /\ u \in Uids /\ Owner[u] = n
    BY <1>3 DEF Fetched, Exists, Inv, TypeServer
  <2>2. meta' = Put(meta, {<<NoDb, n[2]>>, n}, u)
    BY <1>3 DEF Fetched, MetaKeys
  <2>3. QED
    BY <2>1, <2>2, PutSound DEF Inv, MetaSound
<1>4. QED
  BY <1>1, <1>2, <1>3 DEF GetTableMeta, CacheKey

(* resolveTableUidFromServer() likewise. *)
LEMMA Resolved ==
  ASSUME Inv, NEW n \in Written, NEW u \in Cached, ResolveUid(n, u)
  PROVE  UidsSound' /\ (u # NoUid => Owner[u] = n)
<1>1. CASE u = NoUid /\ UNCHANGED uids
  BY <1>1 DEF Inv, UidsSound
<1>2. CASE /\ Exists(n) /\ u = table[n]
           /\ uids' = Put(uids, {<<NoDb, n[2]>>, n}, u)
  <2>1. n \in Tables /\ u \in Uids /\ Owner[u] = n
    BY <1>2 DEF Exists, Inv, TypeServer
  <2>2. QED
    BY <1>2, <2>1, PutSound DEF Inv, UidsSound
<1>3. QED
  BY <1>1, <1>2 DEF ResolveUid

(* The name a statement resolves to is one that can be written. *)
LEMMA NamedWritten == ASSUME Inv, NEW w \in Written PROVE Named(w) \in Written
  BY DEF Inv, Named, Written

(* Routing a statement only ever caches the dbId of a real database. *)
LEMMA RouteKeeps ==
  ASSUME Inv, NEW d, NEW i, Route(d, i) PROVE dbIds' \subseteq Dbs
  BY DEF Inv, Route

(* Every dbId a request can carry is a number. *)
LEMMA DbIdsNat == DbIdRange \subseteq Nat /\ \A u \in Uids : NodeOf[Owner[u][1]] \in Nat
<1>1. \A u \in Uids : Owner[u][1] \in Dbs
  BY InsertAssumption DEF Tables
<1>2. QED
  BY <1>1, InsertAssumption DEF DbIdRange

(* The record that stands for no request is well-typed. *)
LEMMA NoRequestTyped == NoRequest.named \in Written /\ NoRequest.dbId \in Nat
<1>0. PICK t \in Names : TRUE
  BY InsertAssumption
<1>1. <<NoDb, t>> \in Written
  BY DEF Written
<1>2. QED
  BY <1>1 DEF NoRequest, Request

(* A request is as well-typed as its parts. *)
LEMMA RequestTyped ==
  ASSUME NEW k, NEW n \in Written, NEW i \in Nat, NEW S, NEW g,
         last' = Request(k, n, i, S, g)
  PROVE  last'.named \in Written /\ last'.dbId \in Nat
  BY DEF Request

(* So is what a step that sends nothing leaves behind. *)
LEMMA SilentTyped ==
  ASSUME Silent PROVE last'.named \in Written /\ last'.dbId \in Nat
  BY NoRequestTyped DEF Silent

-----------------------------------------------------------------------------
(* With nothing cached and nothing prepared the caches are sound. *)
LEMMA InitInv == Init => Inv
<1>. SUFFICES ASSUME Init PROVE Inv
  OBVIOUS
<1>1. TypeServer /\ db \in Dbs \cup {NoDb} /\ dbIds \subseteq Dbs
  BY DEF Init, TypeServer
<1>2. MetaSound /\ UidsSound
  BY DEF Init, MetaSound, UidsSound, Empty
<1>3. TypeStmt
  BY NoRequestTyped DEF Init, TypeStmt, Statement, States
<1>4. last.named \in Written /\ last.dbId \in Nat
  BY NoRequestTyped DEF Init
<1>5. QED
  BY <1>1, <1>2, <1>3, <1>4 DEF Inv

(* CREATE TABLE and DROP TABLE leave the caches as they are: stale, but    *)
(* never wrong about the owner of a uid.                                   *)
LEMMA CatalogueInv == ASSUME Inv, Catalogue PROVE Inv'
<1>1. PICK n \in Tables : Create(n) \/ Drop(n)
  BY DEF Catalogue
<1>2. TypeServer'
  BY <1>1 DEF Create, Drop, Inv, TypeServer
<1>3. UNCHANGED <<caches, db, stmt>> /\ Silent
  BY <1>1 DEF Create, Drop
<1>4. QED
  BY <1>2, <1>3, SilentTyped
  DEF caches, Inv, MetaSound, UidsSound, TypeStmt

(* fetchTableMeta() and invalidateMeta() keep the caches sound. *)
LEMMA CacheInv == ASSUME Inv, Cache PROVE Inv'
<1>1. UNCHANGED <<server, uids, dbIds, db, stmt>> /\ Silent
  BY DEF Cache, Refresh, Invalidate
<1>2. MetaSound'
  <2>1. CASE \E n \in Tables : Refresh(n)
    <3>1. PICK n \in Tables, u \in Cached : Fetched(n, u) \/ NotFetched(n, u)
      BY <2>1 DEF Refresh, Cached
    <3>2. CASE NotFetched(n, u)
      BY <3>2 DEF NotFetched, Inv, MetaSound
    <3>3. CASE Fetched(n, u)
      <4>1. u \in Uids /\ Owner[u] = n
        BY <3>3 DEF Fetched, Exists, Inv, TypeServer
      <4>2. meta' = Put(meta, {<<NoDb, n[2]>>, n}, u)
        BY <3>3 DEF Fetched, MetaKeys
      <4>3. QED
        BY <4>1, <4>2, PutSound DEF Inv, MetaSound
    <3>4. QED
      BY <3>1, <3>2, <3>3
  <2>2. CASE \E w \in Written : Invalidate(w)
    BY <2>2 DEF Invalidate, Inv, MetaSound
  <2>3. QED
    BY <2>1, <2>2 DEF Cache
<1>3. QED
  BY <1>1, <1>2, SilentTyped DEF server, Inv, TypeServer, UidsSound, TypeStmt

(* An INSERT statement keeps them sound, however it finds the uid. *)
LEMMA InsertKeeps ==
  ASSUME Inv, NEW w \in Written, NEW up \in BOOLEAN, Insert(w, up) PROVE Inv'
<1>1. UNCHANGED <<server, db, stmt>>
  BY DEF Insert
<1>2. PICK i \in DbIdRange, u \in Cached, v \in Cached :
        /\ Route(Target(w, up), i)
        /\ IF db = NoDb /\ w[1] = NoDb
           THEN Rejected(Named(w)) /\ UNCHANGED <<meta, uids>>
           ELSE /\ GetTableMeta(Named(w), u)
                /\ \/ /\ u # NoUid
                      /\ Submitted(Named(w), NodeOf[Owner[u][1]], u, FALSE)
                      /\ UNCHANGED uids
                   \/ /\ u = NoUid /\ LookupUid(w) # NoUid
                      /\ Submitted(Named(w), i, LookupUid(w), w[1] = NoDb)
                      /\ UNCHANGED uids
                   \/ /\ u = NoUid /\ LookupUid(w) = NoUid
                      /\ ResolveUid(Named(w), v)
                      /\ IF v = NoUid THEN Rejected(Named(w))
                                      ELSE Submitted(Named(w), i, v, FALSE)
  BY Zenon DEF Insert, Cached
<1>3. i \in Nat /\ Named(w) \in Written /\ dbIds' \subseteq Dbs
  BY <1>2, DbIdsNat, NamedWritten, RouteKeeps
<1>4. MetaSound' /\ UidsSound'
  <2>1. CASE UNCHANGED <<meta, uids>>
    BY <2>1 DEF Inv, MetaSound, UidsSound
  <2>2. CASE GetTableMeta(Named(w), u)
    <3>1. MetaSound'
      BY <1>3, <2>2, GetMeta
    <3>2. UNCHANGED uids \/ ResolveUid(Named(w), v)
      BY <1>2, <2>2
    <3>3. UidsSound'
      BY <1>3, <3>2, Resolved DEF Inv, UidsSound
    <3>4. QED
      BY <3>1, <3>3
  <2>3. QED
    BY <1>2, <2>1, <2>2
<1>5. last'.named \in Written /\ last'.dbId \in Nat
  <2>1. \/ Rejected(Named(w))
        \/ \E j \in Nat : \E x, g : Submitted(Named(w), j, x, g)
    BY <1>2, <1>3, DbIdsNat DEF Cached
  <2>2. QED
    BY <1>3, <2>1, RequestTyped DEF Rejected, Submitted
<1>6. QED
  BY <1>1, <1>3, <1>4, <1>5 DEF server, Inv, TypeServer, TypeStmt

(* So does every SQL statement. *)
LEMMA SqlInv == ASSUME Inv, Sql PROVE Inv'
<1>1. CASE \E d \in Dbs : Use(d)
  <2>1. PICK d \in Dbs : Use(d)
    BY <1>1
  <2>2. db' \in Dbs /\ dbIds' \subseteq Dbs
    BY <2>1, RouteKeeps DEF Use
  <2>3. UNCHANGED <<server, meta, uids, stmt>> /\ Silent
    BY <2>1 DEF Use
  <2>4. QED
    BY <2>2, <2>3, SilentTyped
    DEF server, Inv, TypeServer, MetaSound, UidsSound, TypeStmt
<1>2. CASE \E w \in Written, up \in BOOLEAN : Select(w, up)
  <2>1. PICK w \in Written, up \in BOOLEAN, i \in DbIdRange :
          /\ Route(Target(w, up), i)
          /\ last' = Request("select", Named(w), i, Nowhere, w[1] # NoDb /\ ~up)
          /\ UNCHANGED <<server, meta, uids, db, stmt>>
    BY <1>2 DEF Select
  <2>2. last'.named \in Written /\ last'.dbId \in Nat
    BY <2>1, NamedWritten, DbIdsNat, RequestTyped
  <2>3. dbIds' \subseteq Dbs
    BY <2>1, RouteKeeps
  <2>4. QED
    BY <2>1, <2>2, <2>3
    DEF server, Inv, TypeServer, MetaSound, UidsSound, TypeStmt
<1>3. CASE \E w \in Written, up \in BOOLEAN : Insert(w, up)
  BY <1>3, InsertKeeps
<1>4. QED
  BY <1>1, <1>2, <1>3 DEF Sql

(* A statement record put together from typed parts is typed. *)
LEMMA StatementTyped ==
  ASSUME NEW s \in States, NEW n \in Written, NEW u \in Cached, NEW i \in Nat,
         NEW k \in BOOLEAN, NEW b \in Nat, stmt' = Statement(s, n, u, i, k, b)
  PROVE  TypeStmt'
  BY DEF Statement, TypeStmt, Cached

(* prepare() keeps the invariant, whichever way it finds the uid. *)
LEMMA PrepareInv == ASSUME Inv, NEW w \in Written, Prepare(w) PROVE Inv'
<1>. DEFINE n == Named(w)
<1>1. n \in Written
  BY NamedWritten
<1>2. UNCHANGED <<server, dbIds, db>> /\ Silent
  BY DEF Prepare
<1>3. stmt.batch \in Nat /\ stmt.uid \in Cached /\ stmt.dbId \in Nat
  BY DEF Inv, TypeStmt, Cached
<1>4. MetaSound' /\ UidsSound' /\ TypeStmt'
  <2>1. CASE PrepareMeta(n)
    <3>1. PICK u \in Uids :
            /\ \/ GetTableMeta(n, u) /\ UNCHANGED uids
               \/ n \notin DOMAIN meta /\ Fetched(n, u) /\ ResolveUid(n, u)
            /\ Prepared(n, u, NodeOf[Owner[u][1]])
      BY <2>1 DEF PrepareMeta
    <3>2. GetTableMeta(n, u) /\ u \in Cached
      BY <3>1 DEF GetTableMeta, CacheKey, Cached
    <3>3. MetaSound'
      BY <1>1, <3>2, GetMeta
    <3>4. UidsSound'
      BY <1>1, <3>1, <3>2, Resolved DEF Inv, UidsSound
    <3>5. TypeStmt'
      BY <1>1, <1>3, <3>1, <3>2, DbIdsNat, StatementTyped DEF Prepared, States
    <3>6. QED
      BY <3>3, <3>4, <3>5
  <2>2. CASE PrepareUid(n)
    <3>1. PICK u \in Uids : ResolveUid(n, u) /\ Prepared(n, u, 1)
      BY <2>2 DEF PrepareUid
    <3>2. MetaSound' /\ UidsSound'
      BY <1>1, <2>2, <3>1, GetMeta, Resolved DEF PrepareUid, Cached
    <3>3. TypeStmt'
      BY <1>1, <1>3, <3>1, StatementTyped DEF Prepared, States, Cached
    <3>4. QED
      BY <3>2, <3>3
  <2>3. CASE PrepareOld(n)
    <3>1. MetaSound' /\ UidsSound'
      BY <1>1, <2>3, GetMeta, Resolved DEF PrepareOld, Cached
    <3>2. TypeStmt'
      BY <1>1, <1>3, <2>3, StatementTyped DEF PrepareOld, States
    <3>3. QED
      BY <3>1, <3>2
  <2>4. QED
    BY <2>1, <2>2, <2>3 DEF Prepare
<1>5. QED
  BY <1>2, <1>4, SilentTyped DEF server, Inv, TypeServer

(* So does every call on a statement object. *)
LEMMA StmtInv == ASSUME Inv, Stmt PROVE Inv'
<1>1. CASE \E w \in Written : Prepare(w)
  BY <1>1, PrepareInv
<1>2. CASE ~\E w \in Written : Prepare(w)
  <2>1. Quiet
    BY <1>2 DEF Stmt, BindParam, AddBatch, Execute, CloseStmt, CreateStmt,
                BindParamBatch
  <2>3. PICK s \in States, u \in Cached, i \in Nat, k \in BOOLEAN, b \in Nat :
          stmt' = Statement(s, stmt.named, u, i, k, b)
    <3>0. /\ stmt.batch \in Nat /\ stmt.batch + 1 \in Nat /\ stmt.kept \in BOOLEAN
          /\ stmt.uid \in Cached /\ NoUid \in Cached
          /\ stmt.dbId \in Nat /\ 1 \in Nat
          /\ States = {"INIT", "PREPARED", "BINDING", "BATCHED"}
      BY DEF Inv, TypeStmt, Cached, States
    <3>1. CASE BindParam \/ AddBatch \/ Execute \/ CloseStmt
      BY <3>0, <3>1 DEF BindParam, AddBatch, Execute, CloseStmt, In
    <3>2. CASE CreateStmt
      BY <3>0, <3>2 DEF CreateStmt
    <3>3. CASE \E k \in 1 .. MaxRows : BindParamBatch(k)
      BY <3>0, <3>3, InsertAssumption DEF BindParamBatch, In
    <3>4. QED
      BY <1>2, <3>1, <3>2, <3>3 DEF Stmt
  <2>4. TypeStmt'
    BY <2>3, StatementTyped DEF Inv, TypeStmt
  <2>5. last'.named \in Written /\ last'.dbId \in Nat
    <3>1. CASE Silent
      BY <3>1, SilentTyped
    <3>2. CASE Execute
      BY <3>2, RequestTyped DEF Execute, Inv, TypeStmt
    <3>3. QED
      BY <1>2, <3>1, <3>2 DEF Stmt, BindParam, AddBatch, CloseStmt, CreateStmt,
                              BindParamBatch
  <2>6. QED
    BY <2>1, <2>4, <2>5
    DEF Quiet, server, caches, Inv, TypeServer, MetaSound, UidsSound
<1>3. QED
  BY <1>1, <1>2

(* The invariant is inductive. *)
LEMMA StepInv == Inv /\ [Next]_vars => Inv'
<1>. SUFFICES ASSUME Inv, [Next]_vars PROVE Inv'
  OBVIOUS
<1>1. CASE UNCHANGED vars
  BY <1>1 DEF vars, server, caches, Inv, TypeServer, MetaSound, UidsSound,
              TypeStmt
<1>2. CASE Next
  BY <1>2, CatalogueInv, CacheInv, SqlInv, StmtInv DEF Next
<1>3. QED
  BY <1>1, <1>2

(* It holds throughout. *)
LEMMA InvAlways == Spec => []Inv
  BY InitInv, StepInv, PTL DEF Spec

(* Type correctness of the client, the statement and the catalogue. *)
THEOREM InsertTypeCorrect == Spec => []TypeOK
<1>1. Inv => TypeOK
  BY InvIs
<1>2. QED
  BY <1>1, InvAlways, PTL

(* The caches never hold metadata of a namesake, whatever requests fail,   *)
(* statements are reused and tables are dropped and created.               *)
THEOREM CachesSound == Spec => []CacheSound
<1>1. Inv => CacheSound
  BY InvIs
<1>2. QED
  BY <1>1, InvAlways, PTL

-----------------------------------------------------------------------------
(* A statement holds the uid of the table it names, unless the uid is one  *)
(* that prepare() kept; and the rows of the last request were stored in    *)
(* the table it names, unless it was addressed by a guess.                 *)
StmtOwn ==
  /\ stmt.uid = NoUid => stmt.state = "INIT"
  /\ stmt.uid # NoUid /\ stmt.named[1] # NoDb /\ ~stmt.kept =>
       Owner[stmt.uid] = stmt.named

OwnInv == Inv /\ StmtOwn /\ StoredAsNamed

(* A prepare() that finds the uid of its table gives it to the statement.  *)
LEMMA OwnPrepared ==
  ASSUME NEW n \in Written, NEW u \in Uids, NEW i,
         n[1] # NoDb => Owner[u] = n, Prepared(n, u, i)
  PROVE  StmtOwn'
<1>1. u # NoUid
  BY InsertAssumption
<1>2. QED
  BY <1>1 DEF Prepared, StmtOwn, Statement

(* prepare() finds the uid of its own table or keeps what there was. *)
LEMMA OwnPrepare ==
  ASSUME OwnInv, NEW w \in Written, Prepare(w) PROVE StmtOwn'
<1>. DEFINE n == Named(w)
<1>1. n \in Written /\ Inv
  BY NamedWritten DEF OwnInv
<1>2. CASE PrepareMeta(n)
  <2>1. PICK u \in Uids :
          /\ \/ GetTableMeta(n, u) /\ UNCHANGED uids
             \/ n \notin DOMAIN meta /\ Fetched(n, u) /\ ResolveUid(n, u)
          /\ Prepared(n, u, NodeOf[Owner[u][1]])
    BY <1>2 DEF PrepareMeta
  <2>2. GetTableMeta(n, u) /\ u \in Cached /\ u # NoUid
    BY <2>1, InsertAssumption DEF GetTableMeta, CacheKey, Cached
  <2>3. n[1] # NoDb => Owner[u] = n
    BY <1>1, <2>2, GetMeta
  <2>4. QED
    BY <1>1, <2>1, <2>3, OwnPrepared
<1>3. CASE PrepareUid(n)
  <2>1. PICK u \in Uids : ResolveUid(n, u) /\ Prepared(n, u, 1)
    BY <1>3 DEF PrepareUid
  <2>2. Owner[u] = n
    BY <1>1, <2>1, Resolved, InsertAssumption DEF Cached
  <2>3. QED
    BY <1>1, <2>1, <2>2, OwnPrepared
<1>4. CASE PrepareOld(n)
  <2>1. stmt' = Statement(IF stmt.uid # NoUid THEN "PREPARED" ELSE "INIT", n,
                          stmt.uid, stmt.dbId, stmt.uid # NoUid, stmt.batch)
    BY <1>4 DEF PrepareOld
  <2>2. QED
    BY <2>1 DEF StmtOwn, Statement
<1>5. QED
  BY <1>2, <1>3, <1>4 DEF Prepare

(* The calls other than prepare() keep the uid and the table named. *)
LEMMA OwnCalls ==
  ASSUME OwnInv, Stmt, ~\E w \in Written : Prepare(w) PROVE StmtOwn'
<1>1. CASE BindParam \/ AddBatch
  <2>1. stmt.uid # NoUid
    BY <1>1 DEF BindParam, AddBatch, OwnInv, StmtOwn
  <2>2. QED
    BY <1>1, <2>1 DEF BindParam, AddBatch, In, Statement, OwnInv, StmtOwn
<1>2. CASE Execute
  <2>1. stmt.uid # NoUid
    BY <1>2 DEF Execute, CanSubmit
  <2>2. QED
    BY <1>2, <2>1 DEF Execute, In, Statement, OwnInv, StmtOwn
<1>3. CASE CloseStmt
  BY <1>3 DEF CloseStmt, In, Statement, OwnInv, StmtOwn
<1>4. CASE CreateStmt
  BY <1>4 DEF CreateStmt, Statement, StmtOwn
<1>5. CASE \E k \in 1 .. MaxRows : BindParamBatch(k)
  <2>1. stmt.uid # NoUid
    BY <1>5 DEF BindParamBatch, OwnInv, StmtOwn
  <2>2. QED
    BY <1>5, <2>1 DEF BindParamBatch, In, Statement, OwnInv, StmtOwn
<1>6. QED
  BY <1>1, <1>2, <1>3, <1>4, <1>5 DEF Stmt

(* Every row stored goes to the table its statement names: its uid is that *)
(* of the metadata, of the qualified entry of the uid cache or of the      *)
(* server's answer.                                                        *)
LEMMA StoreLast == ASSUME OwnInv, Next PROVE StoredAsNamed'
<1>1. CASE Execute
  <2>1. /\ last'.named = stmt.named /\ last'.guess = stmt.kept
        /\ last'.into \in {Stored(stmt.dbId, stmt.uid), Nowhere}
        /\ stmt.uid # NoUid
    BY <1>1 DEF Execute, Request, CanSubmit
  <2>2. stmt.named[1] # NoDb /\ ~stmt.kept => Owner[stmt.uid] = stmt.named
    BY <2>1 DEF OwnInv, StmtOwn
  <2>3. QED
    BY <2>1, <2>2 DEF StoredAsNamed, Stored, Nowhere
<1>2. CASE \E w \in Written, up \in BOOLEAN : Insert(w, up)
  <2>1. PICK w \in Written, up \in BOOLEAN : Insert(w, up)
    BY <1>2
  <2>2. Named(w) \in Written /\ Inv
    BY NamedWritten DEF OwnInv
  <2>3. \/ Rejected(Named(w))
        \/ \E u \in Uids :
             /\ \E i : Submitted(Named(w), i, u, FALSE)
             /\ GetTableMeta(Named(w), u) \/ ResolveUid(Named(w), u)
        \/ /\ \E i : Submitted(Named(w), i, LookupUid(w), w[1] = NoDb)
           /\ LookupUid(w) # NoUid
    BY <2>1, <2>2, InsertAssumption, Zenon DEF Insert
  <2>4. CASE Rejected(Named(w))
    BY <2>4 DEF Rejected, Request, StoredAsNamed
  <2>5. ASSUME NEW u \in Uids, NEW i, Submitted(Named(w), i, u, FALSE),
               GetTableMeta(Named(w), u) \/ ResolveUid(Named(w), u)
        PROVE  StoredAsNamed'
    <3>1. u \in Cached /\ u # NoUid
      BY InsertAssumption DEF Cached
    <3>2. Named(w)[1] # NoDb => Owner[u] = Named(w)
      BY <2>2, <2>5, <3>1, GetMeta, Resolved
    <3>3. QED
      BY <2>5, <3>2 DEF Submitted, Stored, Nowhere, Request, StoredAsNamed
  <2>6. ASSUME NEW i, Submitted(Named(w), i, LookupUid(w), w[1] = NoDb),
               LookupUid(w) # NoUid
        PROVE  StoredAsNamed'
    <3>1. w[1] # NoDb => Named(w) = w /\ Owner[LookupUid(w)] = w
      BY <2>2, <2>6 DEF Named, LookupUid, Inv, UidsSound
    <3>2. QED
      BY <2>6, <3>1 DEF Submitted, Stored, Nowhere, Request, StoredAsNamed
  <2>7. QED
    BY <2>3, <2>4, <2>5, <2>6
<1>3. CASE \E w \in Written, up \in BOOLEAN : Select(w, up)
  BY <1>3 DEF Select, Request, StoredAsNamed
<1>4. CASE Silent
  BY <1>4 DEF Silent, NoRequest, Request, StoredAsNamed
<1>5. QED
  BY <1>1, <1>2, <1>3, <1>4 DEF Next, Catalogue, Cache, Sql, Stmt, Create, Drop,
     Refresh, Invalidate, Use, Prepare, BindParam, AddBatch, CloseStmt,
     CreateStmt, BindParamBatch

(* This is inductive. *)
LEMMA OwnStep == OwnInv /\ [Next]_vars => OwnInv'
<1>. SUFFICES ASSUME OwnInv, [Next]_vars PROVE OwnInv'
  OBVIOUS
<1>1. Inv'
  BY StepInv DEF OwnInv
<1>2. CASE UNCHANGED vars
  BY <1>1, <1>2 DEF vars, OwnInv, StmtOwn, StoredAsNamed
<1>3. CASE Next
  <2>1. StmtOwn'
    <3>1. CASE Stmt
      BY <3>1, OwnPrepare, OwnCalls
    <3>2. CASE UNCHANGED stmt
      BY <3>2 DEF OwnInv, StmtOwn
    <3>3. QED
      BY <1>3, <3>1, <3>2 DEF Next, Catalogue, Cache, Sql, Create, Drop, Refresh,
         Invalidate, Use, Select, Insert
  <2>2. QED
    BY <1>1, <1>3, <2>1, StoreLast DEF OwnInv
<1>4. QED
  BY <1>2, <1>3

(* It holds before anything is prepared. *)
LEMMA OwnInit == Init => OwnInv
<1>1. Init => StmtOwn /\ StoredAsNamed
  BY DEF Init, StmtOwn, StoredAsNamed, Statement, NoRequest, Request
<1>2. QED
  BY <1>1, InitInv DEF OwnInv

(* A statement object, however often it is prepared and whatever requests  *)
(* fail, holds the uid of the table named, unless its last prepare() found *)
(* nothing and kept the uid of the one before.                             *)
THEOREM PreparedRight == Spec => []PreparedForNamed
<1>1. OwnInv => PreparedForNamed
  BY DEF OwnInv, StmtOwn, PreparedForNamed
<1>2. QED
  BY <1>1, OwnInit, OwnStep, PTL DEF Spec

(* No row is stored in another table than the one its INSERT names,        *)
(* whatever requests fail, except by a uid cached under a name without its *)
(* database or by one that prepare() kept.                                 *)
THEOREM StoredRight == Spec => []StoredAsNamed
<1>1. OwnInv => StoredAsNamed
  BY DEF OwnInv
<1>2. QED
  BY <1>1, OwnInit, OwnStep, PTL DEF Spec

-----------------------------------------------------------------------------
(* A SELECT on an existing table goes to the dbnode of its database,       *)
(* whatever database is selected and whatever requests failed before, once *)
(* the dbId of that database is known, except where the prefix of its      *)
(* table is not recognised.                                                *)
THEOREM SelectsRouted == Spec => []SelectRouted
<1>1. Init => SelectRouted
  BY DEF Init, NoRequest, Request, SelectRouted
<1>2. Inv /\ SelectRouted /\ [Next]_vars => SelectRouted'
  <2>. SUFFICES ASSUME Inv, SelectRouted, [Next]_vars PROVE SelectRouted'
    OBVIOUS
  <2>1. ASSUME NEW w \in Written, NEW up \in BOOLEAN, Select(w, up)
        PROVE  SelectRouted'
    <3>1. PICK i \in DbIdRange :
            /\ Route(Target(w, up), i)
            /\ last' = Request("select", Named(w), i, Nowhere, w[1] # NoDb /\ ~up)
      BY <2>1 DEF Select
    <3>2. PICK n : n = Named(w)
      OBVIOUS
    <3>3. CASE w[1] # NoDb /\ ~up
      BY <3>1, <3>3 DEF Request, SelectRouted
    <3>4. CASE ~(w[1] # NoDb /\ ~up)
      <4>1. Target(w, up) = n[1]
        BY <3>2, <3>4 DEF Target, Named, Written
      <4>2. n[1] \in dbIds' => i = NodeOf[n[1]]
        BY <3>1, <4>1 DEF Route
      <4>3. last'.named = n /\ last'.dbId = i
        BY <3>1, <3>2 DEF Request
      <4>4. QED
        BY <4>2, <4>3 DEF SelectRouted
    <3>5. QED
      BY <3>3, <3>4
  <2>2. CASE \E w \in Written, up \in BOOLEAN : Insert(w, up)
    BY <2>2 DEF Insert, Submitted, Rejected, Request, SelectRouted
  <2>3. CASE Execute
    BY <2>3 DEF Execute, Request, SelectRouted
  <2>4. CASE Silent
    BY <2>4 DEF Silent, NoRequest, Request, SelectRouted
  <2>5. CASE UNCHANGED vars
    BY <2>5 DEF vars, server, caches, Exists, SelectRouted
  <2>6. QED
    BY <2>1, <2>2, <2>3, <2>4, <2>5 DEF Next, Catalogue, Cache, Sql, Stmt,
       Create, Drop, Refresh, Invalidate, Use, Prepare, BindParam, AddBatch,
       CloseStmt, CreateStmt, BindParamBatch
<1>3. QED
  BY <1>1, <1>2, InvAlways, PTL DEF Spec

(* An INSERT that finds the metadata the catalogue has of its table is     *)
(* stored in that table.                                                   *)
LEMMA InsertFinds ==
  ASSUME Inv, NEW w \in Written, NEW up \in BOOLEAN, Insert(w, up),
         NEW n, n = Named(w), Exists(n),
         n \in DOMAIN meta', meta'[n] = table[n]
  PROVE  last'.into = {n}
<1>1. n \in Written /\ n \in Tables /\ table[n] \in Uids /\ Owner[table[n]] = n
  BY NamedWritten DEF Exists, Inv, TypeServer
<1>2. n[1] # NoDb
  BY <1>1, InsertAssumption DEF Tables
<1>3. ~(db = NoDb /\ w[1] = NoDb)
  BY <1>2 DEF Named
<1>4. ASSUME NEW u \in Cached, GetTableMeta(n, u) PROVE u = table[n]
  <2>1. CASE n \in DOMAIN meta
    BY <1>4, <2>1 DEF GetTableMeta, CacheKey
  <2>2. CASE n \notin DOMAIN meta
    BY <1>4, <2>2 DEF GetTableMeta, CacheKey, Fetched, NotFetched
  <2>3. QED
    BY <2>1, <2>2
<1>5. PICK u \in Cached :
        /\ GetTableMeta(n, u)
        /\ u # NoUid => Submitted(n, NodeOf[Owner[u][1]], u, FALSE)
  BY <1>3, Zenon DEF Insert, Cached
<1>6. Submitted(n, NodeOf[n[1]], table[n], FALSE)
  BY <1>1, <1>4, <1>5, InsertAssumption
<1>7. Stored(NodeOf[n[1]], table[n]) = {n}
  BY <1>1 DEF Stored, Accepts
<1>8. QED
  BY <1>6, <1>7 DEF Submitted, Request

(* Only metadata that cannot be had, or those of a table dropped and       *)
(* created again behind the cache's back, make an INSERT into an existing  *)
(* table fail.                                                             *)
THEOREM FreshInsertsStored == Spec => []FreshInsertStored
<1>1. Init => FreshInsertStored
  BY DEF Init, NoRequest, Request, FreshInsertStored
<1>2. Inv /\ FreshInsertStored /\ [Next]_vars => FreshInsertStored'
  <2>. SUFFICES ASSUME Inv, FreshInsertStored, [Next]_vars
                PROVE  FreshInsertStored'
    OBVIOUS
  <2>1. ASSUME NEW w \in Written, NEW up \in BOOLEAN, Insert(w, up)
        PROVE  FreshInsertStored'
    <3>. DEFINE n == Named(w)
    <3>1. last'.named = n /\ UNCHANGED table /\ n \in Written
      BY <2>1, NamedWritten DEF Insert, Submitted, Rejected, Request, server
    <3>. SUFFICES ASSUME n \in Tables, table[n] # NoUid,
                         n \in DOMAIN meta', meta'[n] = table[n]
                  PROVE  last'.into = {n}
      BY <3>1, Zenon DEF FreshInsertStored, Exists
    <3>2. Exists(n)
      BY DEF Exists
    <3>3. QED
      BY <2>1, <3>2, InsertFinds
  <2>2. CASE \E w \in Written, up \in BOOLEAN : Select(w, up)
    BY <2>2 DEF Select, Request, FreshInsertStored
  <2>3. CASE Execute
    BY <2>3 DEF Execute, Request, FreshInsertStored
  <2>4. CASE Silent
    BY <2>4 DEF Silent, NoRequest, Request, FreshInsertStored
  <2>5. CASE UNCHANGED vars
    BY <2>5 DEF vars, server, caches, Exists, FreshInsertStored
  <2>6. QED
    BY <2>1, <2>2, <2>3, <2>4, <2>5 DEF Next, Catalogue, Cache, Sql, Stmt,
       Create, Drop, Refresh, Invalidate, Use, Prepare, BindParam, AddBatch,
       CloseStmt, CreateStmt, BindParamBatch
<1>3. QED
  BY <1>1, <1>2, InvAlways, PTL DEF Spec

-----------------------------------------------------------------------------
(* What is packed of the text of an INSERT: RowPath, with InsertText.      *)

(* The types of columns, the values of a text, the slots they become.      *)
Types == DOMAIN Bytes \cup Strings
Lits  == [form : {"bare", "quoted", "mixed"}, chars : Seq(Chars)]
Slots == {Slot(i, t, b, Span(l)) :
            i \in Nat, t \in Types, b \in Nat, l \in Lits}
Group == [vals : Seq(Lits), end : {"closed", "comma", "cut"}]

(* A slot is as wide as its column, the first as a timestamp.              *)
LEMMA SlotLen ==
  ASSUME NEW i \in Nat, NEW t \in Types, NEW b \in Nat, NEW s
  PROVE  Len(Slot(i, t, b, s)) = IF i = 1 THEN Word ELSE b
<1>1. Word \in Nat /\ t \in Unsigned \cup Signed \cup {"BOOL"} \cup Strings
  BY TextAssumption DEF Types, Word
<1>2. \A n, w : w \in Nat => Len(Network(n, w)) = w
  BY DEF Network
<1>3. Len([k \in 1 .. b |-> IF k <= Len(s) THEN s[k] ELSE Zero]) = b
  OBVIOUS
<1>4. CASE i = 1
  <2>1. Slot(i, t, b, s) = Network(fastTsParse(s), Word)
    BY <1>4, Zenon DEF Slot
  <2> QED
    BY <1>1, <1>2, <1>4, <2>1
<1>5. CASE i # 1
  <2>1. CASE t \in Unsigned
    <3>1. Slot(i, t, b, s) = Network(fastAtou64(s), b)
      BY <1>5, <2>1 DEF Slot, Unsigned, Signed, Strings
    <3> QED
      BY <1>2, <1>5, <3>1
  <2>2. CASE t \in Signed \cup {"BOOL"}
    <3>1. Slot(i, t, b, s)
            = Network(IF t = "TIMESTAMP" THEN DoubleBits(s) ELSE fastAtoi64(s), b)
      BY <1>5, <2>2 DEF Slot, Unsigned, Signed, Strings
    <3> QED
      BY <1>2, <1>5, <3>1
  <2>3. CASE t \in Strings
    <3>1. Slot(i, t, b, s)
            = [k \in 1 .. b |-> IF k <= Len(s) THEN s[k] ELSE Zero]
      BY <1>5, <2>3 DEF Slot, Unsigned, Signed, Strings
    <3> QED
      BY <1>3, <1>5, <3>1
  <2> QED
    BY <1>1, <2>1, <2>2, <2>3
<1> QED
  BY <1>4, <1>5

(* So every slot has a length.                                             *)
LEMMA SlotsLen == \A x \in Slots : Len(x) \in Nat
<1>1. Word \in Nat
  BY TextAssumption DEF Word
<1> QED
  BY <1>1, SlotLen DEF Slots

(* The first column is as wide as a timestamp.                             *)
LEMMA ColumnTypes ==
  ASSUME columns \in Schemas, NEW i \in Nat \ {0}
  PROVE  /\ TypeOf(i) \in Types /\ BytesOf(i) \in Nat
         /\ i = 1 => BytesOf(i) = Word
<1>1. /\ columns \in Seq([type : Types, bytes : Nat])
      /\ Len(columns) > 0 /\ columns[1].type = "TIMESTAMP"
      /\ \A k \in 1 .. Len(columns) :
           columns[k].type \in DOMAIN Bytes
             => columns[k].bytes = Bytes[columns[k].type]
  BY TextAssumption DEF Types
<1>2. /\ "BIGINT" \in DOMAIN Bytes /\ "TIMESTAMP" \in DOMAIN Bytes
      /\ Bytes["TIMESTAMP"] = Word /\ Word \in Nat
  BY TextAssumption DEF Word
<1>3. CASE i <= Len(columns)
  <2> DEFINE AColumn == [type : Types, bytes : Nat]
  <2>0. columns \in Seq(AColumn)
    BY <1>1
  <2> HIDE DEF AColumn
  <2>1. columns[i] \in AColumn
    BY <1>3, <2>0
  <2>2. TypeOf(i) = columns[i].type /\ BytesOf(i) = columns[i].bytes
    BY <1>3 DEF TypeOf, BytesOf
  <2> QED
    BY <1>1, <1>2, <1>3, <2>1, <2>2 DEF AColumn
<1>4. CASE ~(i <= Len(columns))
  <2>1. TypeOf(i) = "BIGINT" /\ BytesOf(i) = Word
    BY <1>4 DEF TypeOf, BytesOf
  <2>2. i # 1
    BY <1>1, <1>4
  <2> QED
    BY <1>2, <2>1, <2>2 DEF Types
<1> QED
  BY <1>3, <1>4

(* A row of one column more.                                               *)
LEMMA RowBytesSteps ==
  ASSUME columns \in Schemas
  PROVE  /\ RowBytes(0) = 0
         /\ \A n \in Nat : /\ RowBytes(n) \in Int
                           /\ RowBytes(n + 1) = RowBytes(n) + BytesOf(n + 1)
<1>1. RowBytes(0) = 0
  BY AddedNext DEF RowBytes
<1>2. ASSUME NEW n \in Nat
      PROVE  /\ RowBytes(n) \in Int
             /\ RowBytes(n + 1) = RowBytes(n) + BytesOf(n + 1)
  <2> DEFINE f == [i \in 1 .. n |-> BytesOf(i)]
             g == [i \in 1 .. n + 1 |-> BytesOf(i)]
  <2>1. \A i \in 1 .. n + 1 : BytesOf(i) \in Int
    BY ColumnTypes
  <2>2. /\ \A i \in 1 .. n : f[i] \in Int /\ g[i] = f[i]
        /\ g[n + 1] \in Int /\ g[n + 1] = BytesOf(n + 1)
    BY <2>1
  <2>3. RowBytes(n) = Added(f, n) /\ RowBytes(n + 1) = Added(g, n + 1)
    BY DEF RowBytes
  <2> HIDE DEF f, g
  <2> QED
    BY <2>2, <2>3, AddedNext
<1> QED
  BY <1>1, <1>2

(* A row with one slot more.                                               *)
LEMMA SizeSteps ==
  /\ Size(<<>>) = 0
  /\ \A s \in Seq(Slots) : Size(s) \in Int
  /\ \A s \in Seq(Slots), x \in Slots : Size(Append(s, x)) = Size(s) + Len(x)
<1>1. Size(<<>>) = 0
  <2>1. Size(<<>>) = Added([i \in DOMAIN <<>> |-> Len(<<>>[i])], 0)
    BY DEF Size
  <2> QED
    BY <2>1, AddedNext
<1>2. ASSUME NEW s \in Seq(Slots), NEW x \in Slots
      PROVE  Size(s) \in Int /\ Size(Append(s, x)) = Size(s) + Len(x)
  <2> DEFINE n == Len(s)
             t == Append(s, x)
             f == [i \in DOMAIN s |-> Len(s[i])]
             g == [i \in DOMAIN t |-> Len(t[i])]
  <2>1. /\ n \in Nat /\ Len(t) = n + 1 /\ DOMAIN s = 1 .. n
        /\ DOMAIN t = 1 .. n + 1 /\ t[n + 1] = x
        /\ \A i \in 1 .. n : t[i] = s[i] /\ s[i] \in Slots
    OBVIOUS
  <2>2. Size(s) = Added(f, n) /\ Size(t) = Added(g, n + 1)
    BY <2>1 DEF Size
  <2>4. t = Append(s, x)
    OBVIOUS
  <2> HIDE DEF n, t
  <2>3. /\ \A i \in 1 .. n : f[i] \in Int /\ g[i] = f[i]
        /\ g[n + 1] \in Int /\ g[n + 1] = Len(x)
    BY <2>1, SlotsLen
  <2> HIDE DEF f, g
  <2>5. n \in Nat
    BY <2>1
  <2>6. Added(f, n) \in Int /\ Added(g, n + 1) = Added(f, n) + g[n + 1]
    BY <2>3, <2>5, AddedNext
  <2>7. Size(s) \in Int /\ Size(t) = Size(s) + Len(x)
    BY <2>2, <2>3, <2>6
  <2> QED
    BY <2>4, <2>7
<1>3. ASSUME NEW s \in Seq(Slots) PROVE Size(s) \in Int
  <2>1. CASE s = <<>>
    BY <1>1, <2>1
  <2>2. CASE s # <<>>
    <3>1. s[1] \in Slots
      BY <2>2
    <3> QED
      BY <1>2, <3>1
  <2> QED
    BY <2>1, <2>2
<1> QED
  BY <1>1, <1>2, <1>3

(* The bytes of the rows packed, and those of one row more.                *)
Payload(l) == Added([r \in DOMAIN l |-> Size(l[r])], Len(l))

(* A list with one row more.                                               *)
LEMMA PayloadSteps ==
  /\ Payload(<<>>) = 0
  /\ \A l \in Seq(Seq(Slots)), s \in Seq(Slots) :
       Payload(l) \in Int /\ Payload(Append(l, s)) = Payload(l) + Size(s)
<1>1. Payload(<<>>) = 0
  <2>1. Payload(<<>>) = Added([i \in DOMAIN <<>> |-> Size(<<>>[i])], 0)
    BY DEF Payload
  <2> QED
    BY <2>1, AddedNext
<1>2. ASSUME NEW l \in Seq(Seq(Slots)), NEW s \in Seq(Slots)
      PROVE  Payload(l) \in Int /\ Payload(Append(l, s)) = Payload(l) + Size(s)
  <2> DEFINE n == Len(l)
             t == Append(l, s)
             f == [i \in DOMAIN l |-> Size(l[i])]
             g == [i \in DOMAIN t |-> Size(t[i])]
  <2>1. /\ n \in Nat /\ Len(t) = n + 1 /\ DOMAIN l = 1 .. n
        /\ DOMAIN t = 1 .. n + 1 /\ t[n + 1] = s
        /\ \A i \in 1 .. n : t[i] = l[i] /\ l[i] \in Seq(Slots)
    OBVIOUS
  <2>2. Payload(l) = Added(f, n) /\ Payload(t) = Added(g, n + 1)
    BY <2>1 DEF Payload
  <2>4. t = Append(l, s)
    OBVIOUS
  <2> HIDE DEF n, t
  <2>3. /\ \A i \in 1 .. n : f[i] \in Int /\ g[i] = f[i]
        /\ g[n + 1] \in Int /\ g[n + 1] = Size(s)
    BY <2>1, SizeSteps
  <2> HIDE DEF f, g
  <2>5. n \in Nat
    BY <2>1
  <2>6. Added(f, n) \in Int /\ Added(g, n + 1) = Added(f, n) + g[n + 1]
    BY <2>3, <2>5, AddedNext
  <2>7. Payload(l) \in Int /\ Payload(t) = Payload(l) + Size(s)
    BY <2>2, <2>3, <2>6
  <2> QED
    BY <2>4, <2>7
<1> QED
  BY <1>1, <1>2

-----------------------------------------------------------------------------
(* What is packed. *)

(* The types of the parts; a group cut short has a value to lose.          *)
Cut(g) == g.end = "cut" => g.vals # <<>>
PackTyped ==
  /\ columns \in Schemas /\ text \in Seq(Group) /\ Len(text) <= MaxGroups
  /\ \A g \in DOMAIN text : Cut(text[g])
  /\ group \in Nat \ {0} /\ cols \in Nat
  /\ row \in Seq(Slots) /\ rows \in Seq(Seq(Slots))

(* Every row is as long and as wide as the first.                          *)
PackEven ==
  /\ cols = 0 <=> rows = <<>>
  /\ Size(row) = RowBytes(Len(row))
  /\ \A r \in DOMAIN rows :
       Len(rows[r]) = cols /\ Size(rows[r]) = RowBytes(cols)
  /\ Payload(rows) = Len(rows) * RowBytes(cols)

(* The groups before the one being scanned are packed, and of this one the *)
(* values before the next; a first group without values ends the scan.     *)
AllOf(r) == Len(rows[r]) = Len(Scanned(text[r]))
PackPlace ==
  /\ stage = "write" => group = 1 /\ row = <<>> /\ rows = <<>>
  /\ stage = "pack" =>
       /\ \/ /\ group <= Len(text) + 1 /\ Len(rows) = group - 1
             /\ \A r \in DOMAIN rows : AllOf(r)
             /\ IF group <= Len(text)
                THEN Len(row) <= Len(Scanned(text[group]))
                ELSE row = <<>>
          \/ group = Len(text) + 1 /\ rows = <<>> /\ row = <<>>
       /\ Payload(rows) + Size(row) <= MaxData
  /\ stage = "packed" =>
       /\ Len(rows) = Len(text) /\ \A r \in DOMAIN rows : AllOf(r)
       /\ Payload(rows) <= MaxData

PackInv == PackTyped /\ PackEven /\ PackPlace

(* What the scanner takes of a group.                                      *)
LEMMA ScannedLen ==
  ASSUME NEW g \in Group, Cut(g)
  PROVE  /\ Scanned(g) \in Seq(Lits)
         /\ Len(Scanned(g)) = IF g.end = "cut" THEN Len(g.vals) - 1
                              ELSE Len(g.vals)
<1>1. g.vals \in Seq(Lits)
  BY DEF Group
<1> DEFINE v == g.vals
<1>2. v # <<>> => Front(v) \in Seq(Lits) /\ Len(Front(v)) = Len(v) - 1
  <2> HIDE DEF v
  <2> QED
    BY <1>1 DEF Front, v
<1> QED
  BY <1>1, <1>2 DEF Scanned, Cut

(* What is packed in the end is what was written.                          *)
LEMMA PackedAsWritten == PackInv => RowsAsWritten
<1> SUFFICES ASSUME PackInv, stage = "packed" PROVE RowsAsWritten
  BY DEF RowsAsWritten
<1>1. /\ Len(rows) = Len(text) /\ \A r \in DOMAIN rows : AllOf(r)
      /\ Payload(rows) <= MaxData
  BY DEF PackInv, PackPlace
<1>2. /\ rows \in Seq(Seq(Slots)) /\ text \in Seq(Group)
      /\ \A g \in DOMAIN text : Cut(text[g])
      /\ \A r \in DOMAIN rows : Size(rows[r]) = RowBytes(cols)
  BY DEF PackInv, PackTyped, PackEven
<1>3. ASSUME NEW r \in DOMAIN rows
      PROVE  /\ text[r].end = "cut" => Len(rows[r]) = Len(text[r].vals) - 1
             /\ text[r].end # "cut" => Len(rows[r]) = Len(text[r].vals)
  <2>1. r \in DOMAIN text /\ text[r] \in Group
    BY <1>1, <1>2
  <2>2. Cut(text[r]) /\ Len(rows[r]) = Len(Scanned(text[r]))
    BY <1>1, <1>2, <2>1 DEF AllOf
  <2> QED
    BY <2>1, <2>2, ScannedLen
<1> QED
  BY <1>1, <1>2, <1>3 DEF RowsAsWritten, Payload

(* The columns stay as they are.                                           *)
LEMMA ColumnsStay ==
  ASSUME columns' = columns
  PROVE  \A n : RowBytes(n)' = RowBytes(n)
BY DEF RowBytes, BytesOf

(* A step that only writes, or only passes the rows on.                    *)
LEMMA PackInit == InsertInit => PackInv
<1> SUFFICES ASSUME InsertInit PROVE PackInv
  OBVIOUS
<1>1. /\ columns \in Schemas /\ text = <<>> /\ stage = "write"
      /\ group = 1 /\ row = <<>> /\ cols = 0 /\ rows = <<>>
  BY DEF InsertInit
<1>2. PackTyped
  BY <1>1, TextAssumption DEF PackTyped
<1>3. PackEven
  <2>1. Size(row) = 0 /\ Payload(rows) = 0 /\ Len(row) = 0 /\ Len(rows) = 0
    BY <1>1, SizeSteps, PayloadSteps
  <2>2. RowBytes(0) = 0
    BY <1>1, RowBytesSteps
  <2> QED
    BY <1>1, <2>1, <2>2 DEF PackEven
<1>4. PackPlace
  BY <1>1 DEF PackPlace
<1> QED
  BY <1>2, <1>3, <1>4 DEF PackInv

(* Nothing of the packer changes.                                          *)
LEMMA EvenStays ==
  ASSUME PackEven, columns' = columns, UNCHANGED packer
  PROVE  PackEven'
<1>1. \A n : RowBytes(n)' = RowBytes(n)
  BY ColumnsStay
<1>2. /\ Size(row)' = Size(row) /\ Payload(rows)' = Payload(rows)
      /\ \A r : Size(rows[r])' = Size(rows[r])
  BY DEF packer, Size, Payload
<1>3. RowBytes(Len(row))' = RowBytes(Len(row))
  BY <1>1 DEF packer, RowBytes, BytesOf
<1>4. RowBytes(cols)' = RowBytes(cols)
  BY <1>1 DEF packer, RowBytes, BytesOf
<1> QED
  BY <1>2, <1>3, <1>4 DEF PackEven, packer

(* The text is written before it is packed.                                *)
LEMMA WriteKeeps == ASSUME PackInv, WriteText PROVE PackInv'
<1>1. /\ stage = "write" /\ columns' = columns /\ UNCHANGED packer
      /\ stage' \in {"write", "pack"} /\ PackTyped
      /\ group = 1 /\ row = <<>> /\ rows = <<>>
  BY DEF WriteText, WriteGroup, WriteValue, EndOfText, Writing, PackInv,
         PackPlace
<1>2. PackEven'
  BY <1>1, EvenStays DEF PackInv
<1>3. /\ text' \in Seq(Group) /\ Len(text') <= MaxGroups
      /\ \A g \in DOMAIN text' : Cut(text'[g])
  <2>1. /\ text \in Seq(Group) /\ \A g \in DOMAIN text : Cut(text[g])
        /\ Len(text) <= MaxGroups /\ MaxGroups \in Nat
        /\ columns \in Schemas
    BY <1>1, TextAssumption DEF PackTyped
  <2>2. CASE WriteGroup
    <3> DEFINE x == [vals |-> <<>>, end |-> "comma"]
    <3>1. x \in Group /\ Cut(x)
      BY DEF Group, Cut
    <3>2. text' = Append(text, x) /\ Len(text) < MaxGroups
      BY <2>2 DEF WriteGroup
    <3> HIDE DEF x
    <3> QED
      BY <2>1, <3>1, <3>2
  <2>3. CASE EndOfText
    BY <2>1, <2>3 DEF EndOfText
  <2>4. ASSUME Open, NEW l \in Literals(Len(text), Len(Last(text).vals) + 1),
               NEW end \in {"closed", "comma", "cut"}, WriteValue(l, end)
        PROVE  /\ text' \in Seq(Group) /\ Len(text') <= MaxGroups
               /\ \A g \in DOMAIN text' : Cut(text'[g])
    <3> DEFINE n == Len(text)
               v == text[n].vals
               x == [vals |-> Append(v, l), end |-> end]
    <3>1. n \in Nat /\ n \in DOMAIN text /\ Last(text) = text[n]
      BY <2>1, <2>4 DEF Open, Last
    <3>2. v \in Seq(Lits)
      <4>1. text[n] \in Group
        <5> HIDE DEF n
        <5> QED
          BY <2>1, <3>1
      <4> QED
        BY <4>1 DEF Group
    <3>3. l \in Lits
      <4>1. Len(v) <= Len(columns) /\ l \in Literals(n, Len(v) + 1)
        BY <2>4, <3>1 DEF WriteValue
      <4>2. Len(columns) \in Nat
        BY <2>1, TextAssumption
      <4>3. n \in 1 .. MaxGroups
        BY <2>1, <3>1
      <4> HIDE DEF n, v
      <4>4. Len(v) + 1 \in 1 .. Len(columns) + 1
        BY <3>2, <4>1, <4>2
      <4>5. Literals(n, Len(v) + 1) \subseteq Lits
        BY <2>1, <4>3, <4>4, LiteralAssumption, Zenon DEF Lits
      <4> QED
        BY <4>1, <4>5
    <3>4. Append(v, l) \in Seq(Lits) /\ Append(v, l) # <<>>
      <4> HIDE DEF v
      <4> QED
        BY <3>2, <3>3
    <3>5. x \in Group /\ Cut(x)
      BY <3>4 DEF Group, Cut
    <3>6. text' = [text EXCEPT ![n] = x]
      BY <2>4 DEF WriteValue
    <3> HIDE DEF n, x
    <3> QED
      BY <2>1, <3>1, <3>5, <3>6
  <2> QED
    BY <2>2, <2>3, <2>4 DEF WriteText
<1>4. PackTyped'
  BY <1>1, <1>3 DEF PackTyped, packer, Cut
<1>5. PackPlace'
  <2>1. group' = 1 /\ row' = <<>> /\ rows' = <<>>
    BY <1>1 DEF packer
  <2>2. Payload(rows)' = 0 /\ Size(row)' = 0
    BY <2>1, PayloadSteps, SizeSteps
  <2>3. 1 <= Len(text') => Len(Scanned(text'[1])) \in Nat
    BY <1>3, ScannedLen
  <2>4. Len(text') \in Nat
    BY <1>3
  <2>5. MaxData \in Nat
    BY TextAssumption
  <2> QED
    BY <1>1, <2>1, <2>2, <2>3, <2>4, <2>5 DEF PackPlace, AllOf
<1> QED
  BY <1>2, <1>4, <1>5 DEF PackInv

(* The next slot of the row.                                               *)
LEMMA NextSlotLen ==
  ASSUME PackTyped, More
  PROVE  NextSlot \in Slots /\ Len(NextSlot) = BytesOf(Len(row) + 1)
<1> DEFINE i == Len(row) + 1
           g == text[group]
<1>1. i \in Nat \ {0} /\ group \in DOMAIN text
  BY DEF PackTyped, More
<1>2. g \in Group /\ Cut(g)
  BY <1>1 DEF PackTyped
<1>3. Scanned(g) \in Seq(Lits) /\ i <= Len(Scanned(g))
  BY <1>1, <1>2, ScannedLen DEF More, PackTyped
<1>4. Scanned(g)[i] \in Lits
  <2> HIDE DEF g, i
  <2> QED
    BY <1>1, <1>3
<1>5. TypeOf(i) \in Types /\ BytesOf(i) \in Nat /\ (i = 1 => BytesOf(i) = Word)
  BY <1>1, ColumnTypes DEF PackTyped
<1>6. NextSlot = Slot(i, TypeOf(i), BytesOf(i), Span(Scanned(g)[i]))
  BY DEF NextSlot
<1> HIDE DEF g, i
<1>7. NextSlot \in Slots
  BY <1>1, <1>4, <1>5, <1>6 DEF Slots
<1>8. Len(NextSlot) = IF i = 1 THEN Word ELSE BytesOf(i)
  BY <1>1, <1>5, <1>6, SlotLen
<1> QED
  BY <1>5, <1>7, <1>8 DEF i

(* A value is packed, or is too much for one message.                      *)
LEMMA ValueKeeps == ASSUME PackInv, PackValue PROVE PackInv'
<1>1. /\ stage = "pack" /\ columns' = columns /\ text' = text /\ More
      /\ PackTyped /\ PackEven
  BY DEF PackValue, Packing, PackInv
<1>2. CASE UNCHANGED packer /\ stage' = "refused"
  <2>1. PackEven'
    BY <1>1, <1>2, EvenStays
  <2>2. PackTyped'
    BY <1>1, <1>2 DEF PackTyped, packer, Cut
  <2>3. PackPlace'
    BY <1>2 DEF PackPlace
  <2> QED
    BY <2>1, <2>2, <2>3 DEF PackInv
<1>3. CASE /\ ~(Len(rows) * RowBytes(cols) + Size(row) + BytesOf(Len(row) + 1)
                  > MaxData)
           /\ row' = Append(row, NextSlot)
           /\ UNCHANGED <<stage, group, cols, rows>>
  <2> DEFINE x == NextSlot
             n == Len(row)
             b == BytesOf(n + 1)
  <2>1. x \in Slots /\ Len(x) = b /\ row \in Seq(Slots) /\ n \in Nat
    BY <1>1, NextSlotLen DEF PackTyped
  <2>2. row' \in Seq(Slots) /\ Len(row') = n + 1 /\ row' = Append(row, x)
    BY <1>3, <2>1
  <2>3. b \in Nat
    BY <1>1, <2>1, ColumnTypes DEF PackTyped
  <2> HIDE DEF x, b
  <2>4. Size(row') = Size(row) + b /\ Size(row) \in Int
    BY <2>1, <2>2, SizeSteps
  <2> HIDE DEF n
  <2>5. RowBytes(n + 1) = RowBytes(n) + b
    BY <1>1, <2>1, RowBytesSteps DEF PackTyped, b
  <2>6. /\ Size(row) = RowBytes(n)
        /\ Payload(rows) = Len(rows) * RowBytes(cols)
        /\ cols = 0 <=> rows = <<>>
        /\ \A r \in DOMAIN rows :
             Len(rows[r]) = cols /\ Size(rows[r]) = RowBytes(cols)
    BY <1>1 DEF PackEven, n
  <2>7. PackTyped'
    BY <1>1, <1>3, <2>2 DEF PackTyped, Cut
  <2>8. PackEven'
    <3>1. /\ RowBytes(Len(row))' = RowBytes(n + 1)
          /\ RowBytes(cols)' = RowBytes(cols)
      BY <1>1, <1>3, <2>2 DEF RowBytes, BytesOf
    <3>2. Size(row)' = Size(row') /\ Payload(rows)' = Payload(rows)
      BY <1>3 DEF Size, Payload
    <3>3. \A r : Size(rows[r])' = Size(rows[r])
      BY <1>3 DEF Size
    <3>4. Size(row)' = RowBytes(Len(row))'
      BY <2>4, <2>5, <2>6, <3>1, <3>2
    <3> QED
      BY <1>3, <2>6, <3>1, <3>2, <3>3, <3>4 DEF PackEven
  <2>9. PackPlace'
    <3>1. /\ group <= Len(text) /\ n < Len(Scanned(text[group]))
      BY <1>1 DEF More, n
    <3>2. Len(Scanned(text[group])) \in Nat
      <4>1. group \in DOMAIN text /\ text \in Seq(Group)
        BY <1>1, <3>1 DEF PackTyped
      <4>2. text[group] \in Group /\ Cut(text[group])
        BY <1>1, <4>1 DEF PackTyped
      <4> QED
        BY <4>2, ScannedLen
    <3>3. /\ Len(rows) = group - 1 /\ group <= Len(text) + 1
          /\ \A r \in DOMAIN rows : AllOf(r)
      <4>1. ~(group = Len(text) + 1)
        BY <1>1, <3>1 DEF PackTyped
      <4> QED
        BY <1>1, <4>1 DEF PackInv, PackPlace
    <3>4. n + 1 <= Len(Scanned(text[group]))
      BY <2>1, <3>1, <3>2
    <3>5. Payload(rows) + Size(row') <= MaxData
      <4>1. Len(rows) * RowBytes(cols) + Size(row) + b <= MaxData
        <5>1. Payload(rows) \in Int /\ MaxData \in Nat
          BY <1>1, <2>1, PayloadSteps, TextAssumption DEF PackTyped
        <5>2. ~(Payload(rows) + Size(row) + b > MaxData)
          BY <1>3, <2>6 DEF b, n
        <5> QED
          BY <2>3, <2>4, <2>6, <5>1, <5>2
      <4>2. Payload(rows) \in Int
        BY <1>1, <2>1, PayloadSteps DEF PackTyped
      <4> QED
        BY <2>3, <2>4, <2>6, <4>1, <4>2
    <3>6. Size(row)' = Size(row') /\ Payload(rows)' = Payload(rows)
      BY <1>3 DEF Size, Payload
    <3> QED
      BY <1>1, <1>3, <2>2, <3>1, <3>3, <3>4, <3>5, <3>6 DEF PackPlace, AllOf
  <2> QED
    BY <2>7, <2>8, <2>9 DEF PackInv
<1> QED
  BY <1>2, <1>3, Zenon DEF PackValue, Refuse

(* The end of a group of values.                                           *)
LEMMA RowKeeps == ASSUME PackInv, EndRow PROVE PackInv'
<1>1. /\ stage = "pack" /\ columns' = columns /\ text' = text
      /\ group <= Len(text) /\ ~More /\ PackTyped /\ PackEven /\ PackPlace
  BY DEF EndRow, Packing, PackInv
<1>2. /\ text \in Seq(Group) /\ group \in DOMAIN text /\ group \in Nat \ {0}
      /\ row \in Seq(Slots) /\ rows \in Seq(Seq(Slots)) /\ Len(row) \in Nat
      /\ cols \in Nat
  BY <1>1 DEF PackTyped
<1>3. /\ Len(rows) = group - 1 /\ \A r \in DOMAIN rows : AllOf(r)
      /\ Len(row) <= Len(Scanned(text[group]))
      /\ Payload(rows) + Size(row) <= MaxData
  <2>1. ~(group = Len(text) + 1)
    BY <1>1, <1>2
  <2> QED
    BY <1>1, <2>1 DEF PackPlace
<1>4. Len(row) = Len(Scanned(text[group]))
  <2>1. text[group] \in Group /\ Cut(text[group])
    BY <1>1, <1>2 DEF PackTyped
  <2>2. Len(Scanned(text[group])) \in Nat
    BY <2>1, ScannedLen
  <2> QED
    BY <1>1, <1>2, <1>3, <2>2 DEF More
<1>5. CASE UNCHANGED packer /\ stage' = "refused"
  <2>1. PackEven'
    BY <1>1, <1>5, EvenStays
  <2>2. PackTyped'
    BY <1>1, <1>5 DEF PackTyped, packer, Cut
  <2>3. PackPlace'
    BY <1>5 DEF PackPlace
  <2> QED
    BY <2>1, <2>2, <2>3 DEF PackInv
<1>6. CASE /\ Fits(Len(row)) /\ row = <<>> /\ group' = Len(text) + 1
           /\ UNCHANGED <<stage, row, cols, rows>>
  <2>1. rows = <<>>
    <3>1. Len(row) = 0
      BY <1>6
    <3> QED
      BY <1>1, <1>6, <3>1 DEF Fits, PackEven
  <2>2. PackTyped'
    <3>1. Len(text) + 1 \in Nat \ {0}
      BY <1>2
    <3> QED
      BY <1>1, <1>6, <3>1 DEF PackTyped, Cut
  <2>3. PackEven'
    <3>1. /\ RowBytes(Len(row))' = RowBytes(Len(row))
          /\ RowBytes(cols)' = RowBytes(cols)
      BY <1>1, <1>6 DEF RowBytes, BytesOf
    <3>2. /\ Size(row)' = Size(row) /\ Payload(rows)' = Payload(rows)
          /\ \A r : Size(rows[r])' = Size(rows[r])
      BY <1>6 DEF Size, Payload
    <3> QED
      BY <1>1, <1>6, <3>1, <3>2 DEF PackEven
  <2>4. PackPlace'
    <3>1. Size(row)' = Size(row) /\ Payload(rows)' = Payload(rows)
      BY <1>6 DEF Size, Payload
    <3> QED
      BY <1>1, <1>3, <1>6, <2>1, <3>1 DEF PackPlace
  <2> QED
    BY <2>2, <2>3, <2>4 DEF PackInv
<1>7. CASE /\ Fits(Len(row)) /\ row # <<>>
           /\ cols' = Len(row) /\ rows' = Append(rows, row) /\ row' = <<>>
           /\ group' = group + 1 /\ UNCHANGED stage
  <2> DEFINE n == Len(rows)
             c == Len(row)
             w == RowBytes(c)
  <2>1. /\ rows' \in Seq(Seq(Slots)) /\ Len(rows') = n + 1 /\ n \in Nat
        /\ rows'[n + 1] = row /\ \A r \in 1 .. n : rows'[r] = rows[r]
        /\ DOMAIN rows' = 1 .. n + 1 /\ DOMAIN rows = 1 .. n
    BY <1>2, <1>7
  <2>2. c \in Nat /\ c # 0 /\ <<>> \in Seq(Slots)
    BY <1>2, <1>7
  <2>3. /\ Size(row) = w /\ w \in Int
        /\ Payload(rows') = Payload(rows) + Size(row) /\ Payload(rows) \in Int
    BY <1>1, <1>2, <1>7, <2>2, RowBytesSteps, PayloadSteps
       DEF PackEven, PackTyped
  <2>4. /\ \A r \in DOMAIN rows : Len(rows[r]) = c /\ Size(rows[r]) = w
        /\ Payload(rows) = n * w
    <3>1. CASE rows = <<>>
      <4>1. Payload(rows) = 0 /\ n = 0 /\ DOMAIN rows = {}
        BY <3>1, PayloadSteps
      <4> QED
        BY <2>3, <4>1
    <3>2. CASE cols = c
      BY <1>1, <3>2 DEF PackEven
    <3> QED
      BY <1>1, <1>7, <3>1, <3>2 DEF Fits, PackEven
  <2>5. PackTyped'
    <3>1. group + 1 \in Nat \ {0}
      BY <1>2
    <3> QED
      BY <1>1, <1>7, <2>1, <2>2, <3>1 DEF PackTyped, Cut
  <2>6. Size(row)' = 0 /\ Payload(rows)' = Payload(rows')
    <3>1. Size(row)' = Size(<<>>)
      BY <1>7 DEF Size
    <3>2. Payload(rows)' = Payload(rows')
      BY DEF Payload, Size
    <3> QED
      BY <3>1, <3>2, SizeSteps
  <2>7. PackEven'
    <3>1. RowBytes(Len(row))' = 0 /\ RowBytes(cols)' = w
      <4>1. Len(row') = 0
        BY <1>7
      <4>2. RowBytes(Len(row))' = RowBytes(0) /\ RowBytes(cols)' = w
        BY <1>1, <1>7, <4>1 DEF RowBytes, BytesOf
      <4> QED
        BY <1>1, <4>2, RowBytesSteps DEF PackTyped
    <3>2. \A r : Size(rows[r])' = Size(rows'[r])
      BY DEF Size
    <3>3. \A r \in DOMAIN rows' : Len(rows'[r]) = c /\ Size(rows'[r]) = w
      <4> SUFFICES ASSUME NEW r \in 1 .. n + 1
                   PROVE  Len(rows'[r]) = c /\ Size(rows'[r]) = w
        BY <2>1
      <4>1. CASE r = n + 1
        BY <2>1, <2>3, <4>1
      <4>2. CASE r # n + 1
        <5>1. r \in 1 .. n
          BY <2>1, <4>2
        <5>2. rows'[r] = rows[r] /\ r \in DOMAIN rows
          BY <2>1, <5>1
        <5> QED
          BY <2>4, <5>2
      <4> QED
        BY <4>1, <4>2
    <3>4. Payload(rows') = (n + 1) * w
      <4>1. \A a \in Nat, b \in Int : a * b + b = (a + 1) * b
        OBVIOUS
      <4>2. n * w + w = (n + 1) * w
        <5> HIDE DEF n, w
        <5> QED
          BY <2>1, <2>3, <4>1
      <4> QED
        BY <2>3, <2>4, <4>2
    <3>5. rows' # <<>> /\ cols' # 0
      BY <1>7, <2>1, <2>2
    <3> HIDE DEF n, c, w
    <3>6. Payload(rows)' = Len(rows') * w
      BY <2>1, <2>6, <3>4
    <3> QED
      BY <1>7, <2>6, <3>1, <3>2, <3>3, <3>5, <3>6 DEF PackEven, c
  <2>8. PackPlace'
    <3>1. \A r \in DOMAIN rows' : Len(rows'[r]) = Len(Scanned(text[r]))
      <4> SUFFICES ASSUME NEW r \in 1 .. n + 1
                   PROVE  Len(rows'[r]) = Len(Scanned(text[r]))
        BY <2>1
      <4>1. CASE r = n + 1
        BY <1>2, <1>3, <1>4, <2>1, <4>1
      <4>2. CASE r # n + 1
        <5>1. r \in 1 .. n
          BY <2>1, <4>2
        <5>2. rows'[r] = rows[r] /\ r \in DOMAIN rows
          BY <2>1, <5>1
        <5> QED
          BY <1>3, <5>2 DEF AllOf
      <4> QED
        BY <4>1, <4>2
    <3>2. group + 1 <= Len(text) + 1 /\ Len(rows') = (group + 1) - 1
      BY <1>1, <1>2, <1>3, <2>1
    <3>3. Payload(rows)' + Size(row)' <= MaxData
      BY <1>3, <2>3, <2>6
    <3>4. group + 1 <= Len(text) => 0 <= Len(Scanned(text[group + 1]))
      <4> SUFFICES ASSUME group + 1 <= Len(text)
                   PROVE  0 <= Len(Scanned(text[group + 1]))
        OBVIOUS
      <4>1. group + 1 \in DOMAIN text
        BY <1>2
      <4>2. text[group + 1] \in Group /\ Cut(text[group + 1])
        BY <1>1, <1>2, <4>1 DEF PackTyped
      <4>3. Len(Scanned(text[group + 1])) \in Nat
        BY <4>2, ScannedLen
      <4> QED
        BY <4>3
    <3>5. Len(row') = 0
      BY <1>7
    <3> QED
      BY <1>1, <1>7, <3>1, <3>2, <3>3, <3>4, <3>5 DEF PackPlace, AllOf
  <2> QED
    BY <2>5, <2>7, <2>8 DEF PackInv
<1> QED
  BY <1>5, <1>6, <1>7, Zenon DEF EndRow, Refuse

(* The end of the text.                                                    *)
LEMMA TextKeeps == ASSUME PackInv, EndText PROVE PackInv'
<1>1. /\ stage = "pack" /\ columns' = columns /\ text' = text
      /\ group > Len(text) /\ UNCHANGED packer
      /\ stage' = IF rows = <<>> THEN "refused" ELSE "packed"
      /\ PackTyped /\ PackEven /\ PackPlace
  BY DEF EndText, Packing, PackInv
<1>2. PackEven'
  BY <1>1, EvenStays
<1>3. PackTyped'
  BY <1>1 DEF PackTyped, packer, Cut
<1>4. PackPlace'
  <2>1. CASE rows = <<>>
    BY <1>1, <2>1 DEF PackPlace
  <2>2. CASE rows # <<>>
    <3>1. /\ text \in Seq(Group) /\ group \in Nat
          /\ rows \in Seq(Seq(Slots)) /\ row \in Seq(Slots)
      BY <1>1 DEF PackTyped
    <3>2. /\ group <= Len(text) + 1 /\ Len(rows) = group - 1
          /\ \A r \in DOMAIN rows : AllOf(r)
          /\ Payload(rows) + Size(row) <= MaxData
          /\ group > Len(text) => row = <<>>
      BY <1>1, <2>2, <3>1 DEF PackPlace
    <3>3. Size(row) = 0 /\ Payload(rows) \in Int
      BY <1>1, <3>1, <3>2, SizeSteps, PayloadSteps
    <3>4. Payload(rows) <= MaxData /\ Len(rows) = Len(text)
      BY <1>1, <3>1, <3>2, <3>3
    <3>5. Payload(rows)' = Payload(rows)
      BY <1>1 DEF Payload, Size, packer
    <3>6. stage' = "packed"
      BY <1>1, <2>2
    <3> QED
      BY <1>1, <3>2, <3>4, <3>5, <3>6 DEF PackPlace, AllOf, packer
  <2> QED
    BY <2>1, <2>2
<1> QED
  BY <1>2, <1>3, <1>4 DEF PackInv

(* What comes after the packer leaves its rows alone.                      *)
LEMMA LaterKeeps ==
  ASSUME PackInv, UNCHANGED <<columns, text, packer>>,
         stage' \in {stage, "stored"}
  PROVE  PackInv'
<1>1. PackTyped /\ PackEven /\ PackPlace /\ columns' = columns
  BY DEF PackInv
<1>2. PackEven'
  BY <1>1, EvenStays
<1>3. PackTyped'
  BY <1>1 DEF PackTyped, packer, Cut
<1>4. Payload(rows)' = Payload(rows) /\ Size(row)' = Size(row)
  BY DEF Payload, Size, packer
<1>5. PackPlace'
  BY <1>1, <1>4 DEF PackPlace, AllOf, packer
<1> QED
  BY <1>2, <1>3, <1>5 DEF PackInv

(* Every step.                                                             *)
LEMMA PackStep == ASSUME PackInv, [RowNext]_rowVars PROVE PackInv'
<1>1. CASE WriteText
  BY <1>1, WriteKeeps
<1>2. CASE PackValue
  BY <1>2, ValueKeeps
<1>3. CASE EndRow
  BY <1>3, RowKeeps
<1>4. CASE EndText
  BY <1>4, TextKeeps
<1>5. CASE Store
  BY <1>5, LaterKeeps DEF Store
<1>6. CASE UNCHANGED insert
  BY <1>6, LaterKeeps DEF insert
<1> QED
  BY <1>1, <1>2, <1>3, <1>4, <1>5, <1>6
     DEF RowNext, Pack, ReturnRaw, ReturnTagged, StoreValue, StoreNull,
         StoreString, StoreNumber, Malformed, Receiving, rowVars

(* What is packed is what was written, for any tables and texts.           *)
THEOREM PackedRows == RowSpec => []RowsAsWritten
<1>1. RowInit => PackInv
  BY PackInit DEF RowInit
<1>2. PackInv /\ [RowNext]_rowVars => PackInv'
  BY PackStep
<1> QED
  BY <1>1, <1>2, PackedAsWritten, PTL DEF RowSpec

-----------------------------------------------------------------------------
(* Powers and numerals. *)

(* The powers of b up to the n-th.                                         *)
Powers(p, b, n) == p = [i \in 0 .. n |-> IF i = 0 THEN 1 ELSE b * p[i - 1]]
PowerRuns(p, b, n) == p[0] = 1 /\ \A i \in 1 .. n : p[i] = b * p[i - 1]

(* There are such powers, and they are what Power computes.                *)
LEMMA PowerIs ==
  ASSUME NEW b \in Nat, NEW n \in Nat
  PROVE  \E p : /\ PowerRuns(p, b, n) /\ p \in [0 .. n -> Nat]
                /\ \A i \in 0 .. n : Power(b, i) = p[i]
<1> DEFINE F == [q \in (1 .. n) \X Nat |-> b * q[2]]
<1>1. \A i \in 1 .. n, x \in Nat : F[<<i, x>>] = b * x
  OBVIOUS
<1> HIDE DEF F
<1>2. \A i \in 1 .. n, x \in Nat : F[<<i, x>>] \in Nat
  <2>1. \A x \in Nat : b * x \in Nat
    OBVIOUS
  <2> QED
    BY <1>1, <2>1, Zenon
<1>3. 1 \in Nat
  OBVIOUS
<1>4. PICK p : Passes(p, F, Nat, 1, n)
  BY <1>2, <1>3, Recursion
<1>5. /\ p \in [0 .. n -> Nat] /\ p[0] = 1
      /\ \A i \in 1 .. n : p[i] = F[<<i, p[i - 1]>>]
  BY <1>4 DEF Passes
<1>6. \A i \in 1 .. n : p[i - 1] \in Nat
  BY <1>5
<1>7. PowerRuns(p, b, n)
  BY <1>1, <1>5, <1>6 DEF PowerRuns
<1>8. ASSUME NEW i \in 0 .. n PROVE Power(b, i) = p[i]
  <2> DEFINE k == CHOOSE h : Powers(h, b, i)
             q == [j \in 0 .. i |-> p[j]]
             w(j) == IF j = 0 THEN 1 ELSE b * q[j - 1]
  <2>1. Power(b, i) = k[i]
    BY DEF Power, Powers
  <2>2. Powers(q, b, i)
    <3>1. ASSUME NEW j \in 0 .. i PROVE q[j] = w(j)
      <4>1. CASE j = 0
        BY <1>5, <4>1
      <4>2. CASE j # 0
        <5>1. j \in 1 .. n /\ j - 1 \in 0 .. i
          BY <4>2
        <5> QED
          BY <1>7, <4>2, <5>1 DEF PowerRuns
      <4> QED
        BY <4>1, <4>2
    <3> HIDE DEF w
    <3>2. q = [j \in 0 .. i |-> w(j)]
      BY <3>1
    <3> HIDE DEF q
    <3> QED
      BY <3>2, Zenon DEF Powers, w
  <2> HIDE DEF q
  <2>3. Powers(k, b, i)
    BY <2>2, Zenon
  <2> HIDE DEF k
  <2>4. \A j \in 0 .. i : k[j] = IF j = 0 THEN 1 ELSE b * k[j - 1]
    BY <2>3, Zenon DEF Powers
  <2>5. k[0] = 1 /\ \A j \in 1 .. i : k[j] = b * k[j - 1]
    <3>1. 0 \in 0 .. i /\ \A j \in 1 .. i : j \in 0 .. i /\ j # 0
      OBVIOUS
    <3> QED
      BY <2>4, <3>1, Zenon
  <2>6. \A j \in 1 .. i : j \in 1 .. n
    OBVIOUS
  <2>7. \A j \in 0 .. i : k[j] = p[j]
    <3>1. k[0] = p[0] /\ \A j \in 1 .. i : k[j - 1] = p[j - 1] => k[j] = p[j]
      BY <1>7, <2>5, <2>6, Zenon DEF PowerRuns
    <3>2. i \in Nat
      OBVIOUS
    <3> QED
      BY <3>1, <3>2, OnePassage
  <2>8. i \in 0 .. i
    OBVIOUS
  <2> QED
    BY <2>1, <2>7, <2>8
<1> QED
  BY <1>5, <1>7, <1>8

(* One factor more.                                                        *)
LEMMA PowerSteps ==
  ASSUME NEW b \in Nat
  PROVE  /\ Power(b, 0) = 1
         /\ \A n \in Nat : /\ Power(b, n) \in Nat
                           /\ Power(b, n + 1) = b * Power(b, n)
<1>1. ASSUME NEW n \in Nat
      PROVE  /\ Power(b, 0) = 1 /\ Power(b, n) \in Nat
             /\ Power(b, n + 1) = b * Power(b, n)
  <2>1. n + 1 \in Nat /\ 0 \in 0 .. n + 1 /\ n \in 0 .. n + 1
        /\ n + 1 \in 0 .. n + 1 /\ n + 1 \in 1 .. n + 1 /\ (n + 1) - 1 = n
    OBVIOUS
  <2>2. PICK p : /\ PowerRuns(p, b, n + 1) /\ p \in [0 .. n + 1 -> Nat]
                 /\ \A i \in 0 .. n + 1 : Power(b, i) = p[i]
    BY <2>1, PowerIs
  <2>3. p[0] = 1 /\ p[n + 1] = b * p[n] /\ p[n] \in Nat
    BY <2>1, <2>2 DEF PowerRuns
  <2> QED
    BY <2>1, <2>2, <2>3
<1> QED
  BY <1>1

(* Powers of a base grow with the exponent, and those of an even base are  *)
(* even.                                                                   *)
LEMMA PowerGrows ==
  ASSUME NEW b \in Nat \ {0}
  PROVE  /\ \A n \in Nat : Power(b, n) \in Nat \ {0}
         /\ \A n \in Nat : \A k \in 0 .. n : Power(b, k) <= Power(b, n)
<1>1. /\ Power(b, 0) = 1
      /\ \A n \in Nat :
           Power(b, n) \in Nat /\ Power(b, n + 1) = b * Power(b, n)
  BY PowerSteps
<1>2. \A x \in Nat \ {0} : b * x \in Nat \ {0} /\ x <= b * x
  OBVIOUS
<1>3. ASSUME NEW n \in Nat
      PROVE  \A k \in 0 .. n : Power(b, k) # 0
  <2> DEFINE S == {k \in 0 .. n : Power(b, k) # 0}
  <2>1. 0 \in S
    BY <1>1
  <2>2. ASSUME NEW i \in 1 .. n, i - 1 \in S PROVE i \in S
    <3>1. i - 1 \in Nat /\ (i - 1) + 1 = i
      OBVIOUS
    <3>2. Power(b, i) = b * Power(b, i - 1) /\ Power(b, i - 1) \in Nat \ {0}
      BY <1>1, <2>2, <3>1
    <3>3. Power(b, i) # 0
      BY <1>2, <3>2
    <3> QED
      BY <3>3
  <2> HIDE DEF S
  <2>3. \A i \in 0 .. n : i \in S
    BY <2>1, <2>2, Along
  <2> QED
    BY <2>3 DEF S
<1>4. \A n \in Nat : Power(b, n) \in Nat \ {0}
  <2>1. \A n \in Nat : n \in 0 .. n
    OBVIOUS
  <2> QED
    BY <1>1, <1>3, <2>1
<1>5. ASSUME NEW n \in Nat, NEW k \in 0 .. n PROVE Power(b, k) <= Power(b, n)
  <2> DEFINE S == {i \in 0 .. n - k : Power(b, k) <= Power(b, k + i)}
  <2>1. 0 \in S
    BY <1>4
  <2>2. ASSUME NEW i \in 1 .. n - k, i - 1 \in S PROVE i \in S
    <3>1. k + (i - 1) \in Nat /\ (k + (i - 1)) + 1 = k + i /\ k \in Nat
          /\ k + i \in Nat
      OBVIOUS
    <3>2. Power(b, k + i) = b * Power(b, k + (i - 1))
      BY <1>1, <3>1
    <3>3. /\ Power(b, k + (i - 1)) \in Nat \ {0} /\ Power(b, k) \in Nat
          /\ Power(b, k + i) \in Nat
      BY <1>4, <3>1
    <3>4. Power(b, k + (i - 1)) <= Power(b, k + i)
      BY <1>2, <3>2, <3>3
    <3>5. Power(b, k) <= Power(b, k + (i - 1))
      BY <2>2
    <3>6. Power(b, k) <= Power(b, k + i)
      BY <3>3, <3>4, <3>5
    <3> QED
      BY <3>6
  <2> HIDE DEF S
  <2>3. n - k \in Nat
    OBVIOUS
  <2>4. \A i \in 0 .. n - k : i \in S
    BY <2>1, <2>2, <2>3, Along
  <2>5. n - k \in S
    BY <2>3, <2>4
  <2>6. k + (n - k) = n
    OBVIOUS
  <2> QED
    BY <2>5, <2>6 DEF S
<1> QED
  BY <1>4, <1>5

(* What one digit after another makes of a number.                         *)
Reads(g, ds, b) ==
  g[0] = 0 /\ \A i \in 1 .. Len(ds) : g[i] = g[i - 1] * b + ds[i]

(* Whatever does so tells what Number is.                                  *)
LEMMA NumberIs ==
  ASSUME NEW b, NEW ds, Len(ds) \in Nat, NEW g, Reads(g, ds, b)
  PROVE  Number(ds, b) = g[Len(ds)]
<1> DEFINE n == Len(ds)
           Is(v) == v = [i \in 0 .. n |-> IF i = 0 THEN 0
                                          ELSE v[i - 1] * b + ds[i]]
           k == CHOOSE v : Is(v)
           q == [j \in 0 .. n |-> g[j]]
           w(j) == IF j = 0 THEN 0 ELSE q[j - 1] * b + ds[j]
<1>1. Number(ds, b) = k[n]
  BY DEF Number
<1>2. Is(q)
  <2>1. ASSUME NEW j \in 0 .. n PROVE q[j] = w(j)
    <3>1. CASE j = 0
      BY <3>1 DEF Reads
    <3>2. CASE j # 0
      <4>1. j \in 1 .. n /\ j - 1 \in 0 .. n
        BY <3>2
      <4> QED
        BY <3>2, <4>1 DEF Reads
    <3> QED
      BY <3>1, <3>2
  <2> HIDE DEF w
  <2>2. q = [j \in 0 .. n |-> w(j)]
    BY <2>1
  <2> HIDE DEF q
  <2> QED
    BY <2>2, Zenon DEF w
<1> HIDE DEF q
<1>3. Is(k)
  BY <1>2, Zenon
<1> HIDE DEF k
<1>4. \A j \in 0 .. n : k[j] = IF j = 0 THEN 0 ELSE k[j - 1] * b + ds[j]
  BY <1>3, Zenon
<1>5. k[0] = 0 /\ \A j \in 1 .. n : k[j] = k[j - 1] * b + ds[j]
  <2>1. 0 \in 0 .. n /\ \A j \in 1 .. n : j \in 0 .. n /\ j # 0
    OBVIOUS
  <2> QED
    BY <1>4, <2>1, Zenon
<1>6. \A j \in 0 .. n : k[j] = g[j]
  <2>1. k[0] = g[0] /\ \A j \in 1 .. n : k[j - 1] = g[j - 1] => k[j] = g[j]
    BY <1>5, Zenon DEF Reads
  <2> HIDE DEF Is
  <2> QED
    BY <2>1, OnePassage
<1>7. n \in 0 .. n
  OBVIOUS
<1> QED
  BY <1>1, <1>6, <1>7

-----------------------------------------------------------------------------
(* Quotients and remainders.                                               *)
LEMMA DivMod ==
  \A a \in Int, b \in Nat \ {0} :
    /\ a \div b \in Int /\ a % b \in 0 .. b - 1
    /\ a = b * (a \div b) + (a % b)
  OBVIOUS

(* There is but one of each.                                               *)
LEMMA DivModIs ==
  \A a \in Int, b \in Nat \ {0}, q \in Int : \A r \in 0 .. b - 1 :
    a = b * q + r => q = a \div b /\ r = (a % b)
  OBVIOUS

(* Dividing twice.                                                         *)
LEMMA DivDiv ==
  ASSUME NEW u \in Int, NEW v \in Nat \ {0}, NEW z \in Nat \ {0}
  PROVE  u \div (v * z) = (u \div v) \div z
OBVIOUS

(* The remainder of a product, from those of its factors.                  *)
LEMMA ModTimes ==
  ASSUME NEW u \in Int, NEW v \in Nat \ {0}, NEW z \in Nat \ {0}
  PROVE  u % (v * z) = (((u \div v) % z) * v) + (u % v)
<1> DEFINE q == u \div v
           r == u % v
           p == q \div z
           t == q % z
<1>1. /\ q \in Int /\ r \in 0 .. v - 1 /\ u = v * q + r
      /\ p \in Int /\ t \in 0 .. z - 1 /\ q = z * p + t
  BY DivMod
<1> HIDE DEF q, r, p, t
<1>2. v * z \in Nat \ {0}
  OBVIOUS
<1>3. u = (v * z) * p + (t * v + r)
  <2>1. v * (z * p + t) = (v * z) * p + t * v
    BY <1>1
  <2> QED
    BY <1>1, <2>1
<1>4. t * v + r \in 0 .. v * z - 1
  <2>1. t * v <= (z - 1) * v /\ t * v \in Nat
    BY <1>1
  <2>2. (z - 1) * v = v * z - v
    OBVIOUS
  <2> QED
    BY <1>1, <2>1, <2>2
<1>5. t * v + r = u % (v * z)
  BY <1>1, <1>2, <1>3, <1>4, DivModIs
<1> QED
  BY <1>5 DEF q, r, t

(* The last w digits of n read back are the rest of n by the w-th power.   *)
LEMMA NumberOfDigits ==
  ASSUME NEW b \in Nat \ {0}, NEW n \in Int, NEW w \in Nat,
         NEW ds, Len(ds) = w,
         \A i \in 1 .. w : ds[i] = (n \div Power(b, w - i)) % b
  PROVE  Number(ds, b) = n % Power(b, w)
<1> DEFINE P(i) == Power(b, i)
           g == [i \in 0 .. w |-> (n \div P(w - i)) % P(i)]
<1>1. \A i \in 0 .. w : P(i) \in Nat \ {0} /\ P(w - i) \in Nat \ {0}
  <2>1. \A i \in 0 .. w : i \in Nat /\ w - i \in Nat
    OBVIOUS
  <2> QED
    BY <2>1, PowerGrows
<1>2. P(0) = 1
  BY PowerSteps
<1>3. ASSUME NEW i \in 1 .. w
      PROVE P(w - (i - 1)) = P(w - i) * b /\ P(i) = b * P(i - 1)
  <2>1. /\ w - i \in Nat /\ (w - i) + 1 = w - (i - 1)
        /\ i - 1 \in Nat /\ (i - 1) + 1 = i
    OBVIOUS
  <2>2. /\ P(w - (i - 1)) = b * P(w - i) /\ P(i) = b * P(i - 1)
        /\ P(w - i) \in Nat
    <3>1. \A k \in Nat : P(k) \in Nat /\ P(k + 1) = b * P(k)
      BY PowerSteps
    <3> HIDE DEF P
    <3> QED
      BY <2>1, <3>1
  <2>3. \A x, y \in Nat : x * y = y * x
    OBVIOUS
  <2> HIDE DEF P
  <2> QED
    BY <2>2, <2>3
<1> HIDE DEF P
<1>4. Reads(g, ds, b)
  <2>1. g[0] = 0
    <3>1. g[0] = (n \div P(w)) % P(0)
      OBVIOUS
    <3>2. n \div P(w) \in Int
      <4>1. w \in 0 .. w
        OBVIOUS
      <4>2. P(w) \in Nat \ {0}
        BY <1>1, <4>1
      <4> HIDE DEF g
      <4> QED
        BY <4>2
    <3>3. \A x \in Int : x % 1 = 0
      OBVIOUS
    <3> QED
      BY <1>2, <3>1, <3>2, <3>3
  <2>2. ASSUME NEW i \in 1 .. w PROVE g[i] = g[i - 1] * b + ds[i]
    <3> DEFINE m == n \div P(w - i)
    <3>1. i \in 0 .. w /\ i - 1 \in 0 .. w
      OBVIOUS
    <3>2. P(w - i) \in Nat \ {0} /\ P(i - 1) \in Nat \ {0}
      BY <1>1, <3>1
    <3>3. m \in Int
      BY <3>2, DivMod
    <3>4. n \div P(w - (i - 1)) = m \div b
      <4> DEFINE x == P(w - i)
      <4>1. x \in Nat \ {0} /\ P(w - (i - 1)) = x * b
        BY <1>3, <3>2
      <4> HIDE DEF g, m, x
      <4>2. n \div (x * b) = (n \div x) \div b
        BY <4>1, DivDiv
      <4> QED
        BY <4>1, <4>2 DEF m, x
    <3>5. g[i] = m % P(i) /\ g[i - 1] = (m \div b) % P(i - 1)
      BY <3>1, <3>4
    <3>6. ds[i] = m % b
      BY DEF P
    <3> HIDE DEF g, m
    <3>7. m % (b * P(i - 1)) = (((m \div b) % P(i - 1)) * b) + (m % b)
      BY <3>2, <3>3, ModTimes
    <3> QED
      BY <1>3, <3>5, <3>6, <3>7
  <2> HIDE DEF g
  <2> QED
    BY <2>1, <2>2 DEF Reads
<1>5. Number(ds, b) = g[w]
  <2> HIDE DEF g
  <2> QED
    BY <1>4, NumberIs
<1>6. g[w] = (n \div P(0)) % P(w)
  OBVIOUS
<1>7. n \div 1 = n
  OBVIOUS
<1> QED
  BY <1>2, <1>5, <1>6, <1>7 DEF P

(* The power of an even base is even.                                      *)
LEMMA PowerEven ==
  ASSUME NEW b \in Nat, b % 2 = 0, NEW n \in Nat \ {0}
  PROVE  Power(b, n) % 2 = 0
<1>1. n - 1 \in Nat /\ (n - 1) + 1 = n
  OBVIOUS
<1>2. Power(b, n) = b * Power(b, n - 1) /\ Power(b, n - 1) \in Nat
  BY <1>1, PowerSteps
<1>3. b = 2 * (b \div 2) /\ b \div 2 \in Nat
  OBVIOUS
<1> DEFINE k == b \div 2
           x == Power(b, n - 1)
<1>4. \A i, j \in Nat : (2 * i) * j = 2 * (i * j) /\ i * j \in Nat
  OBVIOUS
<1>5. \A i \in Nat : (2 * i) % 2 = 0
  OBVIOUS
<1>6. k \in Nat /\ x \in Nat /\ b = 2 * k /\ Power(b, n) = b * x
  BY <1>2, <1>3
<1> HIDE DEF k, x
<1>7. Power(b, n) = 2 * (k * x) /\ k * x \in Nat
  BY <1>4, <1>6
<1> QED
  BY <1>5, <1>7

-----------------------------------------------------------------------------
(* Numbers in their slots, on the wire and in the cells of a column. *)

(* What a byte of this instance is.                                        *)
LEMMA ByteFacts ==
  /\ Byte \in Nat \ {0} /\ Byte % 2 = 0 /\ Byte >= 4 /\ Word \in Nat \ {0}
  /\ \A t \in DOMAIN Bytes : Bytes[t] \in Nat \ {0} /\ Bytes[t] <= Word
<1>1. /\ Byte \in Nat \ {0, 2} /\ Byte % 2 = 0 /\ "BIGINT" \in DOMAIN Bytes
      /\ \A t \in DOMAIN Bytes : Bytes[t] \in Nat \ {0} /\ Bytes[t] <= Word
  BY TextAssumption
<1>2. Byte >= 4
  BY <1>1
<1> QED
  BY <1>1, <1>2 DEF Word

(* The numbers of a width: an even number of them, at least four.          *)
LEMMA WidthFacts ==
  ASSUME NEW w \in Nat \ {0}
  PROVE  /\ Power(Byte, w) \in Nat /\ Power(Byte, w) >= 4
         /\ Power(Byte, w) = 2 * (Power(Byte, w) \div 2)
         /\ Power(Byte, w) \div 2 \in Nat
<1> DEFINE r == Power(Byte, w)
<1>1. r \in Nat /\ r % 2 = 0
  BY ByteFacts, PowerGrows, PowerEven
<1>2. Power(Byte, 1) = Byte
  <2>1. Power(Byte, 0) = 1 /\ Power(Byte, 0 + 1) = Byte * Power(Byte, 0)
    BY ByteFacts, PowerSteps
  <2>2. 0 + 1 = 1 /\ Byte * 1 = Byte
    BY ByteFacts
  <2> QED
    BY <2>1, <2>2
<1>3. Byte <= r
  <2>1. 1 \in 0 .. w
    OBVIOUS
  <2> QED
    BY <1>2, <2>1, ByteFacts, PowerGrows
<1> HIDE DEF r
<1>4. r >= 4 /\ r = 2 * (r \div 2) /\ r \div 2 \in Nat
  BY <1>1, <1>3, ByteFacts
<1> QED
  BY <1>1, <1>4 DEF r

(* A number cut to a width, from either end.                               *)
LEMMA NetworkReads ==
  ASSUME NEW n \in Int, NEW w \in Nat
  PROVE  /\ Len(Network(n, w)) = w
         /\ FromNetwork(Network(n, w)) = n % Power(Byte, w)
<1> DEFINE ds == Network(n, w)
<1>1. /\ Len(ds) = w
      /\ \A i \in 1 .. w : ds[i] = (n \div Power(Byte, w - i)) % Byte
  BY DEF Network
<1> HIDE DEF ds
<1>2. Number(ds, Byte) = n % Power(Byte, w)
  BY <1>1, ByteFacts, NumberOfDigits
<1> QED
  BY <1>1, <1>2 DEF ds, FromNetwork

(* The other way round.                                                    *)
LEMMA HostReads ==
  ASSUME NEW n \in Int, NEW w \in Nat
  PROVE  /\ Host(n, w) \in Seq(Int) /\ Len(Host(n, w)) = w
         /\ FromHost(Host(n, w)) = n % Power(Byte, w)
<1> DEFINE hs == Host(n, w)
           ds == Reverse(hs)
<1>1. /\ Len(hs) = w /\ hs \in Seq(Int)
      /\ \A i \in 1 .. w : hs[i] = (n \div Power(Byte, i - 1)) % Byte
  <2>1. ASSUME NEW i \in 1 .. w
        PROVE  (n \div Power(Byte, i - 1)) % Byte \in Int
    <3>1. i - 1 \in Nat
      OBVIOUS
    <3>2. Power(Byte, i - 1) \in Nat \ {0}
      BY <3>1, ByteFacts, PowerGrows
    <3> QED
      BY <3>2, ByteFacts
  <2> QED
    BY <2>1 DEF Host
<1> HIDE DEF hs
<1>2. /\ Len(ds) = w
      /\ \A i \in 1 .. w : ds[i] = (n \div Power(Byte, w - i)) % Byte
  <2>1. Len(ds) = w /\ \A i \in 1 .. w : ds[i] = hs[(w - i) + 1]
    BY <1>1 DEF Reverse
  <2>2. \A i \in 1 .. w : (w - i) + 1 \in 1 .. w /\ ((w - i) + 1) - 1 = w - i
    OBVIOUS
  <2> HIDE DEF ds
  <2>3. \A i \in 1 .. w : hs[(w - i) + 1]
                            = (n \div Power(Byte, ((w - i) + 1) - 1)) % Byte
    BY <1>1, <2>2, Zenon
  <2> QED
    BY <2>1, <2>2, <2>3
<1> HIDE DEF ds
<1>3. Number(ds, Byte) = n % Power(Byte, w)
  BY <1>2, ByteFacts, NumberOfDigits
<1> QED
  BY <1>1, <1>3 DEF ds, hs, FromHost

(* Two's complement: what a width holds of a number in its range, and what *)
(* its contents stand for.                                                 *)
LEMMA SignedBack ==
  ASSUME NEW w \in Nat \ {0}, NEW n \in Int,
         -(Power(Byte, w) \div 2) <= n, n <= Power(Byte, w) \div 2 - 1
  PROVE  ToSigned(n % Power(Byte, w), w) = n
<1> DEFINE r == Power(Byte, w)
           h == r \div 2
<1>1. r = 2 * h /\ h \in Nat /\ h >= 2 /\ r \in Nat
  BY WidthFacts
<1> HIDE DEF h, r
<1>2. -h <= n /\ n <= h - 1
  BY DEF h, r
<1>3. (IF n % r >= h THEN (n % r) - r ELSE n % r) = n
  <2>1. CASE n >= 0
    BY <1>1, <1>2, <2>1
  <2>2. CASE n < 0
    <3> DEFINE k == n + r
               q == -1
    <3>1. n = r * q + k /\ k \in 0 .. r - 1 /\ r \in Nat \ {0} /\ q \in Int
      BY <1>1, <1>2, <2>2
    <3> HIDE DEF k, q
    <3>2. k = n % r
      BY <3>1, DivModIs
    <3>3. n + r = n % r
      BY <3>2 DEF k
    <3> QED
      BY <1>1, <1>2, <2>2, <3>3
  <2> QED
    BY <2>1, <2>2
<1> QED
  BY <1>3 DEF r, h, ToSigned

(* The reverse.                                                            *)
LEMMA SignedRange ==
  ASSUME NEW w \in Nat \ {0}, NEW n \in Nat, n <= Power(Byte, w) - 1
  PROVE  /\ ToSigned(n, w) \in Int
         /\ -(Power(Byte, w) \div 2) <= ToSigned(n, w)
         /\ ToSigned(n, w) <= Power(Byte, w) \div 2 - 1
         /\ ToSigned(n, w) % Power(Byte, w) = n
         /\ ToSigned(n, w) = 0 <=> n = 0
<1> DEFINE r == Power(Byte, w)
           h == r \div 2
           s == ToSigned(n, w)
<1>1. r = 2 * h /\ h \in Nat /\ h >= 2 /\ r \in Nat
  BY WidthFacts
<1>2. s = IF n >= h THEN n - r ELSE n
  BY DEF ToSigned
<1> HIDE DEF h, s
<1>3. n <= r - 1
  OBVIOUS
<1> HIDE DEF r
<1>4. s \in Int /\ -h <= s /\ s <= h - 1 /\ (s = 0 <=> n = 0)
  BY <1>1, <1>2, <1>3
<1>5. s % r = n
  <2>1. CASE n >= h
    <3>1. s = r * (-1) + n /\ n \in 0 .. r - 1 /\ r \in Nat \ {0}
      BY <1>1, <1>2, <1>3, <2>1
    <3> QED
      BY <1>4, <3>1, DivModIs
  <2>2. CASE ~(n >= h)
    BY <1>1, <1>2, <1>3, <2>2
  <2> QED
    BY <2>1, <2>2
<1> QED
  BY <1>4, <1>5 DEF s, h, r

(* What columns are kept as.                                               *)
LEMMA Reps ==
  /\ \A t \in Strings : Rep(t) = "string"
  /\ \A t \in Unsigned : Rep(t) = "uint"
  /\ \A t \in Signed : Rep(t) = "int"
  /\ Rep("BOOL") = "bool"
  /\ Strings \cap DOMAIN Bytes = {}
  /\ DOMAIN Bytes \subseteq Unsigned \cup Signed \cup {"BOOL"}
<1>1. DOMAIN Bytes \subseteq Unsigned \cup Signed \cup {"BOOL"}
  BY TextAssumption
<1> QED
  BY <1>1 DEF Rep, Strings, Unsigned, Signed

(* A narrower slot holds no more.                                          *)
LEMMA Narrower ==
  ASSUME NEW t \in DOMAIN Bytes, NEW k \in DOMAIN Bytes, Bytes[t] <= Bytes[k]
  PROVE  /\ Power(Byte, Bytes[t]) <= Power(Byte, Bytes[k])
         /\ Power(Byte, Bytes[t]) \div 2 <= Power(Byte, Bytes[k]) \div 2
<1>1. Bytes[t] \in Nat \ {0} /\ Bytes[k] \in Nat \ {0}
  BY ByteFacts
<1>2. Bytes[t] \in 0 .. Bytes[k] /\ Bytes[k] \in Nat
  BY <1>1
<1>3. Power(Byte, Bytes[t]) <= Power(Byte, Bytes[k])
  BY <1>2, ByteFacts, PowerGrows
<1> DEFINE a == Power(Byte, Bytes[t])
           b == Power(Byte, Bytes[k])
<1>4. a \in Nat /\ b \in Nat /\ a = 2 * (a \div 2) /\ b = 2 * (b \div 2)
      /\ a \div 2 \in Nat /\ b \div 2 \in Nat
  BY <1>1, WidthFacts
<1> HIDE DEF a, b
<1>5. a <= b => a \div 2 <= b \div 2
  BY <1>4
<1> QED
  BY <1>3, <1>5 DEF a, b

(* What a tagged number is read as.                                        *)
LEMMA ParsedIs ==
  ASSUME NEW tag, NEW bs
  PROVE  /\ tag \in Signed =>
              /\ Parsed(tag, bs).i = ToSigned(FromNetwork(bs), Len(bs))
              /\ ~Parsed(tag, bs).isU
         /\ tag \in Unsigned =>
              Parsed(tag, bs).u = FromNetwork(bs) /\ Parsed(tag, bs).isU
         /\ tag = "BOOL" =>
              /\ Parsed(tag, bs).i = IF FromNetwork(bs) # 0 THEN 1 ELSE 0
              /\ ~Parsed(tag, bs).isU
<1> DEFINE n == FromNetwork(bs)
           s == ToSigned(n, Len(bs))
           b == IF n # 0 THEN 1 ELSE 0
<1>1. CASE tag = "BOOL"
  <2>1. Parsed(tag, bs) = [i |-> b, u |-> b, isU |-> FALSE]
    BY <1>1, Zenon DEF Parsed, Signed, Unsigned
  <2> QED
    BY <1>1, <2>1 DEF Signed, Unsigned
<1>2. CASE tag = "BIGINT"
  <2>1. Parsed(tag, bs) = [i |-> s, u |-> Clamp(s, 0, s), isU |-> FALSE]
    BY <1>2, Zenon DEF Parsed, Signed, Unsigned
  <2> QED
    BY <1>2, <2>1 DEF Signed, Unsigned
<1>3. CASE tag = "UBIGINT"
  <2>1. Parsed(tag, bs) = [i |-> Clamp(n, 0, Half - 1), u |-> n, isU |-> TRUE]
    BY <1>3, Zenon DEF Parsed, Signed, Unsigned
  <2> QED
    BY <1>3, <2>1 DEF Signed, Unsigned
<1>4. CASE tag \in Unsigned \ {"UBIGINT"}
  <2>1. Parsed(tag, bs) = [i |-> n, u |-> n, isU |-> TRUE]
    BY <1>4, Zenon DEF Parsed, Signed, Unsigned
  <2> QED
    BY <1>4, <2>1 DEF Signed, Unsigned
<1>5. CASE tag \in Signed \ {"BIGINT"}
  <2>1. Parsed(tag, bs) = [i |-> s, u |-> s % Range64, isU |-> FALSE]
    BY <1>5, Zenon DEF Parsed, Signed, Unsigned
  <2> QED
    BY <1>5, <2>1 DEF Signed, Unsigned
<1> QED
  BY <1>1, <1>2, <1>3, <1>4, <1>5

(* A signed number, sent under its own tag or as a BIGINT.                 *)
LEMMA SignedCell ==
  ASSUME NEW c, columns[c].type \in DOMAIN Bytes \cap Signed,
         NEW v \in Int, NEW tag \in DOMAIN Bytes \cap Tags(columns[c].type),
         -(Power(Byte, Bytes[columns[c].type]) \div 2) <= v,
         v <= Power(Byte, Bytes[columns[c].type]) \div 2 - 1
  PROVE  /\ Cell(c, Parsed(tag, Encoded(tag, v))) \in Seq(Int)
         /\ Len(Cell(c, Parsed(tag, Encoded(tag, v))))
              = Bytes[columns[c].type]
         /\ FromHost(Cell(c, Parsed(tag, Encoded(tag, v))))
              = v % Power(Byte, Bytes[columns[c].type])
<1> DEFINE t == columns[c].type
           b == Encoded(tag, v)
           k == Bytes[tag]
           w == Bytes[t]
<1>1. Rep(t) = "int" /\ t \in Signed /\ t \in DOMAIN Bytes
  BY Reps
<1>2. tag \in Signed /\ tag \in DOMAIN Bytes /\ w <= k
  <2>1. tag \in {t, "BIGINT"}
    BY <1>1 DEF Tags
  <2>2. w <= Bytes["BIGINT"] /\ "BIGINT" \in Signed
    BY <1>1, ByteFacts DEF Word, Signed
  <2>3. w \in Nat
    BY <1>1, ByteFacts
  <2> QED
    BY <1>1, <2>1, <2>2, <2>3
<1>3. k \in Nat \ {0} /\ w \in Nat \ {0}
  BY <1>1, <1>2, ByteFacts
<1>4. b = Network(v, k)
  BY <1>2 DEF Encoded, Signed
<1>5. Len(b) = k /\ FromNetwork(b) = v % Power(Byte, k)
  BY <1>3, <1>4, NetworkReads
<1>6. ToSigned(FromNetwork(b), Len(b)) = v
  <2>1. Power(Byte, w) \div 2 <= Power(Byte, k) \div 2
    BY <1>1, <1>2, Narrower
  <2>2. Power(Byte, w) \div 2 \in Nat /\ Power(Byte, k) \div 2 \in Nat
    BY <1>3, WidthFacts
  <2>3. /\ -(Power(Byte, k) \div 2) <= v
        /\ v <= Power(Byte, k) \div 2 - 1
    <3> DEFINE x == Power(Byte, w) \div 2
               y == Power(Byte, k) \div 2
    <3>1. x \in Nat /\ y \in Nat /\ x <= y /\ -x <= v /\ v <= x - 1
      BY <2>1, <2>2
    <3> HIDE DEF x, y
    <3>2. -y <= v /\ v <= y - 1
      BY <3>1
    <3> QED
      BY <3>2 DEF y
  <2> HIDE DEF k, w
  <2>4. ToSigned(v % Power(Byte, k), k) = v
    BY <1>3, <2>3, SignedBack
  <2> QED
    BY <1>5, <2>4
<1>7. Parsed(tag, b).i = v
  BY <1>2, <1>6, ParsedIs
<1>8. Cell(c, Parsed(tag, b)) = putSigned(v, w)
  <2> DEFINE p == Parsed(tag, b)
  <2>1. p.i = v
    BY <1>7
  <2> HIDE DEF p
  <2>2. Cell(c, p) = putSigned(v, w)
    BY <1>1, <2>1 DEF Cell, Width
  <2> QED
    BY <2>2 DEF p
<1> DEFINE r == Power(Byte, w)
<1>9. r \in Nat /\ r >= 4 /\ r \div 2 \in Nat
  BY <1>3, WidthFacts
<1>10. Clamp(v, -(r \div 2), r \div 2 - 1) = v
  <2>1. -(r \div 2) <= v /\ v <= r \div 2 - 1
    OBVIOUS
  <2> HIDE DEF r
  <2> QED
    BY <1>9, <2>1 DEF Clamp
<1>11. putSigned(v, w) = Host(v % r, w)
  BY <1>10 DEF putSigned
<1>12. v % r \in 0 .. r - 1 /\ (v % r) % r = v % r
  <2> HIDE DEF r
  <2> QED
    BY <1>9
<1> HIDE DEF b, k
<1>13. /\ Host(v % r, w) \in Seq(Int) /\ Len(Host(v % r, w)) = w
       /\ FromHost(Host(v % r, w)) = v % r
  <2>1. v % r \in Int /\ w \in Nat
    BY <1>3, <1>12
  <2> HIDE DEF w
  <2>2. /\ Host(v % r, w) \in Seq(Int) /\ Len(Host(v % r, w)) = w
        /\ FromHost(Host(v % r, w)) = (v % r) % Power(Byte, w)
    BY <2>1, HostReads
  <2> QED
    BY <1>12, <2>2
<1> HIDE DEF r
<1> QED
  BY <1>8, <1>11, <1>13 DEF r, w, b

(* An unsigned one, sent under its own tag or as a UBIGINT.                *)
LEMMA UnsignedCell ==
  ASSUME NEW c, columns[c].type \in DOMAIN Bytes \cap Unsigned,
         NEW v \in Nat, NEW tag \in DOMAIN Bytes \cap Tags(columns[c].type),
         v <= Power(Byte, Bytes[columns[c].type]) - 1
  PROVE  /\ Cell(c, Parsed(tag, Encoded(tag, v))) \in Seq(Int)
         /\ Len(Cell(c, Parsed(tag, Encoded(tag, v))))
              = Bytes[columns[c].type]
         /\ FromHost(Cell(c, Parsed(tag, Encoded(tag, v)))) = v
<1> DEFINE t == columns[c].type
           b == Encoded(tag, v)
           k == Bytes[tag]
           w == Bytes[t]
           r == Power(Byte, w)
<1>1. Rep(t) = "uint" /\ t \in Unsigned /\ t \in DOMAIN Bytes
  BY Reps
<1>2. tag \in Unsigned /\ tag \in DOMAIN Bytes /\ w <= k
  <2>1. tag \in {t, "UBIGINT"}
    BY <1>1 DEF Tags
  <2>2. "UBIGINT" \in DOMAIN Bytes => w <= Bytes["UBIGINT"]
    BY <1>1, ByteFacts, TextAssumption
  <2>3. w \in Nat /\ "UBIGINT" \in Unsigned
    BY <1>1, ByteFacts DEF Unsigned
  <2> QED
    BY <1>1, <2>1, <2>2, <2>3
<1>3. k \in Nat \ {0} /\ w \in Nat \ {0}
  BY <1>1, <1>2, ByteFacts
<1>4. b = Network(v, k)
  BY <1>2 DEF Encoded, Unsigned
<1>5. FromNetwork(b) = v
  <2>1. FromNetwork(b) = v % Power(Byte, k)
    BY <1>3, <1>4, NetworkReads
  <2> DEFINE y == Power(Byte, k)
  <2>2. r <= y
    BY <1>1, <1>2, Narrower
  <2>3. r \in Nat /\ y \in Nat /\ y >= 4 /\ v <= r - 1
    BY <1>3, WidthFacts
  <2> HIDE DEF r, y
  <2>4. v % y = v
    BY <2>2, <2>3
  <2> QED
    BY <2>1, <2>4 DEF y
<1>6. Parsed(tag, b).u = v /\ Parsed(tag, b).isU
  BY <1>2, <1>5, ParsedIs
<1>7. Cell(c, Parsed(tag, b)) = putUnsigned(v, w)
  <2> DEFINE p == Parsed(tag, b)
  <2>1. p.u = v /\ p.isU
    BY <1>6
  <2> HIDE DEF p
  <2>2. Cell(c, p) = putUnsigned(v, w)
    BY <1>1, <2>1 DEF Cell, Width
  <2> QED
    BY <2>2 DEF p
<1>8. r \in Nat /\ r >= 4 /\ v <= r - 1
  BY <1>3, WidthFacts
<1>9. Clamp(v, 0, r - 1) = v /\ v % r = v
  <2> HIDE DEF r
  <2> QED
    BY <1>8 DEF Clamp
<1>10. putUnsigned(v, w) = Host(v, w)
  BY <1>9 DEF putUnsigned
<1> HIDE DEF b, k
<1>11. /\ Host(v, w) \in Seq(Int) /\ Len(Host(v, w)) = w
       /\ FromHost(Host(v, w)) = v
  <2> HIDE DEF w
  <2>1. /\ Host(v, w) \in Seq(Int) /\ Len(Host(v, w)) = w
        /\ FromHost(Host(v, w)) = v % Power(Byte, w)
    BY <1>3, HostReads
  <2> QED
    BY <1>9, <2>1 DEF r
<1> QED
  BY <1>7, <1>10, <1>11 DEF w, b

(* One byte.                                                               *)
LEMMA OneByte ==
  ASSUME NEW x \in Nat
  PROVE  FromNetwork(<<x>>) = x /\ FromHost(<<x>>) = x
<1> DEFINE g == [i \in 0 .. 1 |-> IF i = 0 THEN 0 ELSE x]
<1>1. Len(<<x>>) = 1 /\ g[0] = 0 /\ g[1] = x /\ <<x>>[1] = x
  OBVIOUS
<1> HIDE DEF g
<1>2. Reads(g, <<x>>, Byte)
  <2>1. 0 * Byte + x = x
    BY ByteFacts
  <2>2. \A i \in 1 .. 1 : i = 1 /\ i - 1 = 0
    OBVIOUS
  <2> QED
    BY <1>1, <2>1, <2>2 DEF Reads
<1>3. Number(<<x>>, Byte) = x
  BY <1>1, <1>2, NumberIs
<1>4. Reverse(<<x>>) = <<x>>
  BY DEF Reverse
<1> QED
  BY <1>3, <1>4 DEF FromNetwork, FromHost

(* A truth value.                                                          *)
LEMMA BoolCell ==
  ASSUME NEW c, columns[c].type = "BOOL", NEW v,
         NEW tag \in Tags(columns[c].type)
  PROVE  /\ Cell(c, Parsed(tag, Encoded(tag, v))) \in Seq(Int)
         /\ FromHost(Cell(c, Parsed(tag, Encoded(tag, v)))) # 0 <=> v # 0
<1> DEFINE x == IF v # 0 THEN 1 ELSE 0
<1>1. tag = "BOOL" /\ Rep(columns[c].type) = "bool"
  BY Reps DEF Tags
<1>2. Encoded(tag, v) = <<x>> /\ x \in Nat
  BY <1>1 DEF Encoded
<1>3. FromNetwork(<<x>>) = x /\ FromHost(<<x>>) = x
  BY <1>2, OneByte
<1>4. (x # 0 <=> v # 0) /\ (x # 0 => x = 1)
  OBVIOUS
<1> HIDE DEF x
<1> DEFINE p == Parsed(tag, <<x>>)
<1>5. p.i = x /\ ~p.isU
  BY <1>1, <1>3, <1>4, ParsedIs
<1> HIDE DEF p
<1>6. Cell(c, p) = <<x>>
  BY <1>1, <1>4, <1>5 DEF Cell
<1>7. <<x>> \in Seq(Int)
  BY <1>2
<1> QED
  BY <1>2, <1>3, <1>4, <1>6, <1>7 DEF p

-----------------------------------------------------------------------------
(* What digits stand for. *)

Unsign(s) == IF HasSign(s) THEN Tail(s) ELSE s

(* A text that is a number has nothing but digits after its sign.          *)
LEMMA DigitsOf ==
  ASSUME NEW s \in Seq(Chars), NEW t, IsNumber(t, s)
  PROVE  /\ Digits(s) = Unsign(s) /\ Unsign(s) \in Seq(Chars)
         /\ Unsign(s) # <<>>
         /\ \A i \in 1 .. Len(Unsign(s)) : IsDigit(Unsign(s)[i])
<1> DEFINE d == Unsign(s)
           K == {k \in 0 .. Len(d) : \A i \in 1 .. k : IsDigit(d[i])}
           n == Max(K)
<1>1. d \in Seq(Chars) /\ Len(s) = Len(d) + (IF HasSign(s) THEN 1 ELSE 0)
  BY DEF Unsign, HasSign
<1>2. Digits(s) = SubSeq(d, 1, n)
  BY DEF Digits, Unsign
<1> HIDE DEF d
<1>3. K \in SUBSET Nat /\ 0 \in K /\ Len(d) \in Nat /\ \A x \in K : x <= Len(d)
  BY <1>1
<1>4. n \in K
  <2> HIDE DEF K
  <2> QED
    BY <1>3, Greatest
<1>5. n \in 0 .. Len(d) /\ \A i \in 1 .. n : IsDigit(d[i])
  <2> HIDE DEF n
  <2> QED
    BY <1>4
<1> HIDE DEF n, K
<1>6. Len(SubSeq(d, 1, n)) = n
  BY <1>1, <1>5
<1>7. n = Len(d)
  BY <1>1, <1>2, <1>5, <1>6 DEF IsNumber
<1>8. SubSeq(d, 1, Len(d)) = d
  BY <1>1
<1>9. Digits(s) # <<>>
  BY DEF IsNumber
<1> QED
  BY <1>1, <1>2, <1>5, <1>7, <1>8, <1>9 DEF d

(* The numbers that the first 0, 1, ..., n digits stand for.               *)
LEMMA Horner ==
  ASSUME NEW b \in Nat, NEW ds, Len(ds) \in Nat,
         \A i \in 1 .. Len(ds) : ds[i] \in Nat
  PROVE  \E h : Reads(h, ds, b) /\ h \in [0 .. Len(ds) -> Nat]
<1> DEFINE n == Len(ds)
<1> DEFINE F == [q \in (1 .. n) \X Nat |-> q[2] * b + ds[q[1]]]
<1>1. \A i \in 1 .. n, x \in Nat : F[<<i, x>>] = x * b + ds[i]
  OBVIOUS
<1> HIDE DEF F
<1>2. \A i \in 1 .. n, x \in Nat : F[<<i, x>>] \in Nat
  <2>1. \A x, y \in Nat : x * b + y \in Nat
    OBVIOUS
  <2> QED
    BY <1>1, <2>1, Zenon
<1>3. 0 \in Nat
  OBVIOUS
<1>4. PICK h : Passes(h, F, Nat, 0, n)
  BY <1>2, <1>3, Recursion
<1>5. /\ h \in [0 .. n -> Nat] /\ h[0] = 0
      /\ \A i \in 1 .. n : h[i] = F[<<i, h[i - 1]>>]
  BY <1>4 DEF Passes
<1>6. \A i \in 1 .. n : h[i - 1] \in Nat
  BY <1>5
<1>7. \A i \in 1 .. n : h[i] = h[i - 1] * b + ds[i]
  BY <1>1, <1>5, <1>6
<1> QED
  BY <1>5, <1>7 DEF Reads

(* One more digit, or the limit.                                           *)
OneDigit(a, d, lim) == IF Exceeds(a, d, lim) THEN lim ELSE a * Base + d

(* What the loop passes through for the digits ds.                         *)
Loops(acc, ds, lim) ==
  acc[0] = 0 /\ \A i \in 1 .. Len(ds) :
                  acc[i] = OneDigit(acc[i - 1], Digit[ds[i]], lim)

(* Two runs over the same digits.                                          *)
LEMMA OneLoop ==
  ASSUME NEW ds, Len(ds) \in Nat, NEW lim,
         NEW k, Loops(k, ds, lim), NEW acc, Loops(acc, ds, lim)
  PROVE  k[Len(ds)] = acc[Len(ds)]
<1> DEFINE m == Len(ds)
<1>1. k[0] = acc[0] /\ \A j \in 1 .. m : k[j - 1] = acc[j - 1] => k[j] = acc[j]
  BY Zenon DEF Loops
<1>2. \A j \in 0 .. m : k[j] = acc[j]
  BY <1>1, OnePassage
<1>3. m \in 0 .. m
  OBVIOUS
<1> QED
  BY <1>2, <1>3

(* Any run of the loop tells what it returns.                              *)
LEMMA AccumulatedIs ==
  ASSUME NEW s, NEW lim, Len(Digits(s)) \in Nat,
         NEW acc, Loops(acc, Digits(s), lim)
  PROVE  Accumulated(s, lim) = acc[Len(Digits(s))]
<1> DEFINE ds == Digits(s)
           m == Len(ds)
<1>1. /\ acc[0] = 0
      /\ \A i \in 1 .. m : acc[i] = OneDigit(acc[i - 1], Digit[ds[i]], lim)
  BY DEF Loops
<1>2. m \in Nat
  OBVIOUS
<1> HIDE DEF ds
<1> DEFINE Is(v) == v = [i \in 0 .. m |->
                           IF i = 0 THEN 0
                           ELSE IF Exceeds(v[i - 1], Digit[ds[i]], lim)
                           THEN lim
                           ELSE v[i - 1] * Base + Digit[ds[i]]]
           q == [j \in 0 .. m |-> acc[j]]
           w(i) == IF i = 0 THEN 0
                   ELSE IF Exceeds(q[i - 1], Digit[ds[i]], lim) THEN lim
                   ELSE q[i - 1] * Base + Digit[ds[i]]
<1>3. Is(q)
  <2>1. ASSUME NEW j \in 0 .. m PROVE q[j] = w(j)
    <3>1. CASE j = 0
      BY <1>1, <3>1
    <3>2. CASE j # 0
      <4>1. j \in 1 .. m /\ j - 1 \in 0 .. m
        BY <3>2
      <4>2. q[j] = acc[j] /\ q[j - 1] = acc[j - 1]
        BY <4>1
      <4> HIDE DEF q
      <4> QED
        BY <1>1, <3>2, <4>1, <4>2, Zenon DEF OneDigit
    <3> HIDE DEF w, q
    <3> QED
      BY <3>1, <3>2
  <2> HIDE DEF w
  <2>2. q = [j \in 0 .. m |-> w(j)]
    BY <2>1
  <2> HIDE DEF q
  <2> QED
    BY <2>2, Zenon DEF w
<1> HIDE DEF q
<1>4. PICK k : Is(k) /\ Accumulated(s, lim) = k[m]
  <2>1. Accumulated(s, lim) = (CHOOSE v : Is(v))[m]
    BY DEF Accumulated, ds
  <2>2. Is(CHOOSE v : Is(v))
    BY <1>3, Zenon
  <2> QED
    BY <2>1, <2>2, Zenon
<1>5. /\ k[0] = 0
      /\ \A j \in 1 .. m : k[j] = OneDigit(k[j - 1], Digit[ds[j]], lim)
  <2>1. 0 \in 0 .. m /\ \A j \in 1 .. m : j \in 0 .. m /\ j # 0
    OBVIOUS
  <2>2. \A j \in 0 .. m :
          k[j] = IF j = 0 THEN 0
                 ELSE IF Exceeds(k[j - 1], Digit[ds[j]], lim) THEN lim
                 ELSE k[j - 1] * Base + Digit[ds[j]]
    BY <1>4, Zenon
  <2> QED
    BY <2>1, <2>2, Zenon DEF OneDigit
<1> HIDE DEF Is
<1>6. Loops(k, ds, lim) /\ Loops(acc, ds, lim)
  BY <1>1, <1>5, Zenon DEF Loops
<1>7. k[m] = acc[m]
  BY <1>2, <1>6, OneLoop, Zenon
<1> QED
  BY <1>4, <1>7 DEF ds

(* The limit is kept, and reached only by what is beyond it.               *)
LEMMA OneMore ==
  ASSUME NEW x \in Nat, NEW d \in 0 .. Base - 1, NEW lim \in Nat
  PROVE  OneDigit(IF x <= lim THEN x ELSE lim, d, lim)
           = IF x * Base + d <= lim THEN x * Base + d ELSE lim
<1>1. Base \in Nat /\ Base >= 2
  BY TextAssumption
<1>2. ASSUME NEW a \in Nat
      PROVE  OneDigit(a, d, lim)
               = IF a * Base + d <= lim THEN a * Base + d ELSE lim
  <2> DEFINE q == (lim - d) \div Base
             r == (lim - d) % Base
             p == a * Base
  <2>1. q \in Int /\ r \in 0 .. Base - 1 /\ lim - d = Base * q + r
    BY <1>1, DivMod
  <2>2. p \in Nat
    BY <1>1
  <2>3. a > q <=> p + d > lim
    <3>1. CASE a > q
      <4>1. a >= q + 1
        BY <2>1, <3>1
      <4>2. Base * a >= Base * (q + 1)
        <5> HIDE DEF q
        <5> QED
          BY <1>1, <2>1, <4>1
      <4>3. Base * (q + 1) = Base * q + Base /\ Base * a = p
        <5> HIDE DEF q
        <5> QED
          BY <1>1, <2>1
      <4> HIDE DEF q, r, p
      <4>4. Base * q \in Int
        BY <1>1, <2>1
      <4> QED
        BY <1>1, <2>1, <2>2, <3>1, <4>2, <4>3, <4>4
    <3>2. CASE ~(a > q)
      <4>1. a <= q
        BY <2>1, <3>2
      <4>2. Base * a <= Base * q /\ Base * a = p /\ Base * q \in Int
        <5> HIDE DEF q
        <5> QED
          BY <1>1, <2>1, <4>1
      <4> HIDE DEF q, r, p
      <4> QED
        BY <1>1, <2>1, <2>2, <3>2, <4>2
    <3> QED
      BY <3>1, <3>2
  <2>4. OneDigit(a, d, lim) = IF a > q THEN lim ELSE p + d
    BY DEF OneDigit, Exceeds
  <2> HIDE DEF q, r, p
  <2>5. OneDigit(a, d, lim) = IF p + d <= lim THEN p + d ELSE lim
    BY <2>2, <2>3, <2>4
  <2> QED
    BY <2>5 DEF p
<1>3. CASE x <= lim
  BY <1>2, <1>3
<1>4. CASE ~(x <= lim)
  <2>1. OneDigit(lim, d, lim)
          = IF lim * Base + d <= lim THEN lim * Base + d ELSE lim
    BY <1>2
  <2>2. /\ lim * Base >= lim /\ x * Base >= x
        /\ lim * Base \in Nat /\ x * Base \in Nat
    BY <1>1
  <2> DEFINE p == lim * Base
             q == x * Base
  <2> HIDE DEF p, q
  <2>3. /\ (IF p + d <= lim THEN p + d ELSE lim) = lim
        /\ (IF q + d <= lim THEN q + d ELSE lim) = lim
    BY <1>1, <1>4, <2>2 DEF p, q
  <2> QED
    BY <1>4, <2>1, <2>3 DEF p, q
<1> QED
  BY <1>3, <1>4

(* What the digits of a number stand for is what the loop adds up to, as   *)
(* long as it stays within the limit.                                      *)
LEMMA NumberText ==
  ASSUME NEW s \in Seq(Chars), NEW t, IsNumber(t, s)
  PROVE  \E v \in Nat :
           /\ ValueOf(s) = IF Negative(s) THEN -v ELSE v
           /\ \A lim \in Nat :
                Accumulated(s, lim) = IF v <= lim THEN v ELSE lim
<1> DEFINE d == Unsign(s)
           m == Len(d)
           vs == [i \in DOMAIN d |-> Digit[d[i]]]
           f == [i \in DOMAIN d |-> Digit[d[i]] * Power(Base, m - i)]
<1>1. Digits(s) = d /\ d \in Seq(Chars) /\ \A i \in 1 .. m : IsDigit(d[i])
  BY DigitsOf
<1> HIDE DEF d
<1>2. m \in Nat /\ DOMAIN d = 1 .. m
  BY <1>1
<1>3. Base \in Nat /\ Base \in Nat \ {0}
  BY TextAssumption
<1>4. \A i \in 1 .. m : vs[i] = Digit[d[i]] /\ vs[i] \in 0 .. Base - 1
  <2>1. \A i \in 1 .. m : Digit[d[i]] \in 0 .. Base - 1
    BY <1>1, LiteralAssumption DEF IsDigit
  <2> QED
    BY <1>2, <2>1
<1>5. \A i \in 1 .. m : vs[i] \in Nat
  <2> HIDE DEF m, vs
  <2> QED
    BY <1>3, <1>4
<1>6. PICK h : Reads(h, vs, Base) /\ h \in [0 .. m -> Nat]
  <2>1. Len(vs) = m
    BY <1>2
  <2> HIDE DEF m, vs
  <2> QED
    BY <1>2, <1>3, <1>5, <2>1, Horner
<1>14. h[0] = 0 /\ \A i \in 1 .. m : h[i] = h[i - 1] * Base + vs[i]
  <2>1. Len(vs) = m
    BY <1>2
  <2> HIDE DEF m, vs
  <2> QED
    BY <1>6, <2>1 DEF Reads
<1>7. \A i \in 0 .. m : h[i] \in Nat
  <2> HIDE DEF m
  <2> QED
    BY <1>6
<1>8. /\ f \in [1 .. m -> Int]
      /\ \A i \in 1 .. m : f[i] = vs[i] * Power(Base, m - i)
  <2>1. ASSUME NEW i \in 1 .. m PROVE Digit[d[i]] * Power(Base, m - i) \in Int
    <3>1. m - i \in Nat
      BY <1>2
    <3>2. Power(Base, m - i) \in Nat
      BY <1>3, <3>1, PowerSteps
    <3>3. Digit[d[i]] \in Nat
      BY <1>4, <1>5
    <3> QED
      BY <3>2, <3>3
  <2> HIDE DEF m
  <2> QED
    BY <1>2, <1>4, <2>1
<1> DEFINE g == [i \in 0 .. m |-> h[i] * Power(Base, m - i)]
<1> HIDE DEF f, vs, m
<1>9. Runs(g, f, m)
  <2>1. g[0] = 0
    <3>1. m - 0 \in Nat /\ 0 \in 0 .. m
      BY <1>2
    <3>2. Power(Base, m - 0) \in Nat
      BY <1>3, <3>1, PowerSteps
    <3>3. 0 * Power(Base, m - 0) = 0
      BY <3>2
    <3> QED
      BY <1>6, <1>7, <1>14, <3>1, <3>3
  <2>2. ASSUME NEW i \in 1 .. m PROVE g[i] = g[i - 1] + f[i]
    <3> DEFINE p == Power(Base, m - i)
    <3>1. /\ m - i \in Nat /\ (m - i) + 1 = m - (i - 1)
          /\ i \in 0 .. m /\ i - 1 \in 0 .. m
      BY <1>2
    <3>2. Power(Base, m - (i - 1)) = Base * p /\ p \in Nat
      <4>1. /\ Power(Base, m - i) \in Nat
            /\ Power(Base, (m - i) + 1) = Base * Power(Base, m - i)
        BY <1>3, <3>1, PowerSteps
      <4> QED
        BY <3>1, <4>1
    <3>3. /\ g[i] = h[i] * p /\ g[i - 1] = h[i - 1] * (Base * p)
          /\ f[i] = vs[i] * p
      BY <1>8, <3>1, <3>2
    <3>4. /\ h[i] = h[i - 1] * Base + vs[i] /\ h[i - 1] \in Nat
          /\ vs[i] \in Nat
      BY <1>5, <1>7, <1>14, <3>1
    <3> HIDE DEF g, p
    <3>5. \A x, y, z \in Nat :
            (x * Base + y) * z = x * (Base * z) + y * z
      BY <1>3
    <3>6. (h[i - 1] * Base + vs[i]) * p = h[i - 1] * (Base * p) + vs[i] * p
      BY <3>2, <3>4, <3>5
    <3> QED
      BY <3>3, <3>4, <3>6
  <2> HIDE DEF g
  <2> QED
    BY <2>1, <2>2 DEF Runs
<1>10. Added(f, m) = h[m]
  <2>1. \A i \in 1 .. m : f[i] \in Int
    BY <1>8
  <2>2. Added(f, m) = g[m]
    <3> HIDE DEF g
    <3> QED
      BY <1>2, <1>9, <2>1, AddedRuns
  <2>3. m \in 0 .. m /\ m - m = 0
    BY <1>2
  <2>4. g[m] = h[m] * Power(Base, 0) /\ Power(Base, 0) = 1
    BY <1>3, <2>3, PowerSteps
  <2>5. h[m] * 1 = h[m]
    BY <1>7, <2>3
  <2> QED
    BY <2>2, <2>4, <2>5
<1>11. ValueOf(s) = IF Negative(s) THEN -h[m] ELSE h[m]
  <2>1. ValueOf(s) = IF Negative(s) THEN -Added(f, m) ELSE Added(f, m)
    BY DEF ValueOf, f, m, d, Unsign
  <2> QED
    BY <1>10, <2>1
<1>12. ASSUME NEW lim \in Nat
       PROVE  Accumulated(s, lim) = IF h[m] <= lim THEN h[m] ELSE lim
  <2> DEFINE a == [i \in 0 .. m |-> IF h[i] <= lim THEN h[i] ELSE lim]
  <2>1. a[0] = 0
    BY <1>2, <1>14
  <2>2. ASSUME NEW i \in 1 .. m
        PROVE  a[i] = OneDigit(a[i - 1], Digit[d[i]], lim)
    <3>1. i \in 0 .. m /\ i - 1 \in 0 .. m
      BY <1>2
    <3>2. h[i] = h[i - 1] * Base + vs[i] /\ h[i - 1] \in Nat
      BY <1>6, <1>7, <1>14, <3>1
    <3>3. vs[i] = Digit[d[i]] /\ vs[i] \in 0 .. Base - 1
      BY <1>4
    <3>4. OneDigit(IF h[i - 1] <= lim THEN h[i - 1] ELSE lim, vs[i], lim)
            = IF h[i - 1] * Base + vs[i] <= lim THEN h[i - 1] * Base + vs[i]
              ELSE lim
      BY <3>2, <3>3, OneMore
    <3>5. /\ a[i] = IF h[i] <= lim THEN h[i] ELSE lim
          /\ a[i - 1] = IF h[i - 1] <= lim THEN h[i - 1] ELSE lim
      BY <3>1
    <3> HIDE DEF a
    <3> QED
      BY <3>2, <3>3, <3>4, <3>5, Zenon
  <2> HIDE DEF a
  <2>3. Loops(a, Digits(s), lim) /\ Len(Digits(s)) = m /\ m \in Nat
    BY <1>1, <1>2, <2>1, <2>2 DEF Loops, m
  <2>4. Accumulated(s, lim) = a[m]
    BY <2>3, AccumulatedIs
  <2>5. m \in 0 .. m
    BY <1>2
  <2> QED
    BY <2>4, <2>5 DEF a
<1>13. h[m] \in Nat
  BY <1>2, <1>7
<1> QED
  BY <1>11, <1>12, <1>13

(* The 64 bits of a number.                                                *)
LEMMA WordFacts ==
  /\ Range64 \in Nat /\ Half \in Nat /\ Half >= 2 /\ Range64 = 2 * Half
  /\ \A t \in DOMAIN Bytes :
       /\ Power(Byte, Bytes[t]) <= Range64
       /\ Power(Byte, Bytes[t]) \div 2 <= Half
<1>1. Word \in Nat \ {0} /\ "BIGINT" \in DOMAIN Bytes /\ Word = Bytes["BIGINT"]
  BY ByteFacts, TextAssumption DEF Word
<1>2. Range64 \in Nat /\ Range64 >= 4 /\ Range64 = 2 * Half /\ Half \in Nat
  BY <1>1, WidthFacts DEF Range64, Half
<1>3. Half >= 2
  BY <1>2
<1>4. \A t \in DOMAIN Bytes : /\ Power(Byte, Bytes[t]) <= Range64
                              /\ Power(Byte, Bytes[t]) \div 2 <= Half
  BY <1>1, ByteFacts, Narrower DEF Range64, Half
<1> QED
  BY <1>2, <1>3, <1>4

(* What the converters make of a number.                                   *)
LEMMA Converted ==
  ASSUME NEW s \in Seq(Chars), NEW t, IsNumber(t, s)
  PROVE  /\ ValueOf(s) \in Int
         /\ fastAtoi64(s) = Clamp(ValueOf(s), -Half, Half - 1)
         /\ ValueOf(s) >= 0 =>
              fastAtou64(s) = Clamp(ValueOf(s), 0, Range64 - 1)
         /\ t = "TIMESTAMP" => fastTsParse(s) = fastAtoi64(s)
<1> DEFINE y == ValueOf(s)
<1>1. PICK v \in Nat :
        /\ y = IF Negative(s) THEN -v ELSE v
        /\ \A lim \in Nat : Accumulated(s, lim) = IF v <= lim THEN v ELSE lim
  BY NumberText
<1>2. /\ Range64 \in Nat /\ Half \in Nat /\ Half >= 2 /\ Range64 = 2 * Half
      /\ Half - 1 \in Nat /\ Range64 - 1 \in Nat
  BY WordFacts
<1>3. /\ Accumulated(s, Half) = IF v <= Half THEN v ELSE Half
      /\ Accumulated(s, Half - 1) = IF v <= Half - 1 THEN v ELSE Half - 1
      /\ Accumulated(s, Range64 - 1)
           = IF v <= Range64 - 1 THEN v ELSE Range64 - 1
  BY <1>1, <1>2
<1> HIDE DEF y
<1>4. y \in Int
  BY <1>1
<1>5. fastAtoi64(s) = Clamp(y, -Half, Half - 1)
  <2>1. CASE Negative(s)
    <3>1. fastAtoi64(s) = -(IF v <= Half THEN v ELSE Half)
      BY <1>3, <2>1 DEF fastAtoi64
    <3> QED
      BY <1>1, <1>2, <2>1, <3>1 DEF Clamp
  <2>2. CASE ~Negative(s)
    <3>1. fastAtoi64(s) = IF v <= Half - 1 THEN v ELSE Half - 1
      BY <1>3, <2>2 DEF fastAtoi64
    <3> QED
      BY <1>1, <1>2, <2>2, <3>1 DEF Clamp
  <2> QED
    BY <2>1, <2>2
<1>6. ASSUME y >= 0 PROVE fastAtou64(s) = Clamp(y, 0, Range64 - 1)
  <2>1. CASE Negative(s)
    <3>1. v = 0 /\ y = 0
      BY <1>1, <1>6, <2>1
    <3>2. Accumulated(s, Range64 - 1) = 0
      BY <1>2, <1>3, <3>1
    <3>3. fastAtou64(s) = (-0) % Range64
      BY <2>1, <3>2 DEF fastAtou64
    <3>4. (-0) % Range64 = 0
      BY <1>2
    <3> QED
      BY <1>2, <3>1, <3>3, <3>4 DEF Clamp
  <2>2. CASE ~Negative(s)
    <3>1. fastAtou64(s) = IF v <= Range64 - 1 THEN v ELSE Range64 - 1
      BY <1>3, <2>2 DEF fastAtou64
    <3> QED
      BY <1>1, <1>2, <2>2, <3>1 DEF Clamp
  <2> QED
    BY <2>1, <2>2
<1>7. ASSUME t = "TIMESTAMP" PROVE fastTsParse(s) = fastAtoi64(s)
  <2>1. s # <<>> => s[1] # "+"
    BY <1>7 DEF IsNumber
  <2>2. /\ Unsign(s) \in Seq(Chars)
        /\ \A i \in 1 .. Len(Unsign(s)) : IsDigit(Unsign(s)[i])
    BY DigitsOf
  <2>3. ASSUME NEW i \in DOMAIN s PROVE IsDigit(s[i]) \/ s[i] = "-"
    <3>1. CASE HasSign(s)
      <4>1. Unsign(s) = Tail(s) /\ s # <<>> /\ s[1] = "-"
        BY <2>1, <3>1 DEF Unsign, HasSign
      <4>2. CASE i = 1
        BY <4>1, <4>2
      <4>3. CASE i # 1
        <5>1. i - 1 \in 1 .. Len(Tail(s)) /\ Tail(s)[i - 1] = s[i]
          BY <4>1, <4>3
        <5> QED
          BY <2>2, <4>1, <5>1
      <4> QED
        BY <4>2, <4>3
    <3>2. CASE ~HasSign(s)
      BY <2>2, <3>2 DEF Unsign
    <3> QED
      BY <3>1, <3>2
  <2> QED
    BY <2>3 DEF fastTsParse
<1> QED
  BY <1>4, <1>5, <1>6, <1>7 DEF y

(* What the slot of a column keeps of a number that the column holds.      *)
LEMMA NumberKept ==
  ASSUME NEW s \in Seq(Chars), NEW t \in DOMAIN Bytes, IsNumber(t, s),
         Claimed(t, ValueOf(s))
  PROVE  /\ t \in Unsigned =>
              fastAtou64(s) % Power(Byte, Bytes[t])
                = Clamp(ValueOf(s), 0, Highest(t))
         /\ t \in Signed =>
              ToSigned(fastAtoi64(s) % Power(Byte, Bytes[t]), Bytes[t])
                = Clamp(ValueOf(s), Lowest(t), Highest(t))
         /\ t = "BOOL" =>
              (fastAtoi64(s) % Power(Byte, Bytes[t]) # 0 <=> ValueOf(s) # 0)
<1> DEFINE y == ValueOf(s)
           w == Bytes[t]
           r == Power(Byte, w)
           h == r \div 2
<1>1. /\ y \in Int /\ fastAtoi64(s) = Clamp(y, -Half, Half - 1)
      /\ y >= 0 => fastAtou64(s) = Clamp(y, 0, Range64 - 1)
  BY Converted
<1>2. /\ Range64 \in Nat /\ Half \in Nat /\ Half >= 2 /\ Range64 = 2 * Half
      /\ r <= Range64 /\ h <= Half
  BY WordFacts
<1>3. w \in Nat \ {0}
  BY ByteFacts
<1>4. r \in Nat /\ r >= 4 /\ r = 2 * h /\ h \in Nat /\ h >= 2
  <2>1. r \in Nat /\ r >= 4 /\ r = 2 * h /\ h \in Nat
    <3> HIDE DEF w
    <3> QED
      BY <1>3, WidthFacts
  <2> HIDE DEF r, h
  <2> QED
    BY <2>1
<1>5. /\ Lowest(t) = IF t \in Unsigned THEN 0 ELSE -h
      /\ Highest(t) = IF t \in Unsigned THEN r - 1 ELSE h - 1
  BY DEF Lowest, Highest
<1>6. w = Word => r = Range64 /\ h = Half
  BY DEF Range64, Half
<1>7. \/ Lowest(t) <= y /\ y <= Highest(t)
      \/ w = Word /\ (t \in Signed \/ y >= 0)
  BY <1>1, <1>4, <1>5 DEF Claimed
<1>14. t \in Unsigned => t \notin Signed /\ t # "BOOL"
  BY DEF Unsigned, Signed
<1> HIDE DEF y, w, h
<1>8. \A n \in Int : -h <= n /\ n <= h - 1 => ToSigned(n % r, w) = n
  BY <1>3, SignedBack DEF h
<1>15. t = "BOOL" => t \notin Signed
  BY DEF Signed
<1> HIDE DEF r
<1>9. ASSUME t \in Unsigned
      PROVE  fastAtou64(s) % r = Clamp(y, 0, Highest(t))
  <2>1. y >= 0 /\ (y <= r - 1 \/ r = Range64)
    BY <1>1, <1>2, <1>4, <1>5, <1>6, <1>7, <1>9, <1>14
  <2> DEFINE n == Clamp(y, 0, r - 1)
  <2>2. fastAtou64(s) = n /\ n \in 0 .. r - 1
    BY <1>1, <1>2, <1>4, <2>1 DEF Clamp
  <2> HIDE DEF n
  <2>3. n % r = n
    BY <1>4, <2>2
  <2> QED
    BY <1>5, <1>9, <2>2, <2>3 DEF n
<1>10. ASSUME t \in Signed
       PROVE  ToSigned(fastAtoi64(s) % r, w) = Clamp(y, Lowest(t), Highest(t))
  <2>1. (-h <= y /\ y <= h - 1) \/ h = Half
    BY <1>5, <1>6, <1>7, <1>10, <1>14
  <2> DEFINE n == Clamp(y, -h, h - 1)
  <2>2. fastAtoi64(s) = n /\ n \in Int /\ -h <= n /\ n <= h - 1
    BY <1>1, <1>2, <1>4, <2>1 DEF Clamp
  <2> HIDE DEF n
  <2>3. ToSigned(n % r, w) = n
    BY <1>8, <2>2
  <2> QED
    BY <1>5, <1>10, <1>14, <2>2, <2>3 DEF n
<1>11. ASSUME t = "BOOL" PROVE fastAtoi64(s) % r # 0 <=> y # 0
  <2>1. (-h <= y /\ y <= h - 1) \/ h = Half
    BY <1>5, <1>6, <1>7, <1>11, <1>14
  <2> DEFINE n == Clamp(y, -h, h - 1)
  <2>2. fastAtoi64(s) = n /\ n \in Int /\ -h <= n /\ n <= h - 1
    BY <1>1, <1>2, <1>4, <2>1 DEF Clamp
  <2>3. n # 0 <=> y # 0
    BY <1>1, <1>4 DEF Clamp
  <2> HIDE DEF n
  <2>4. n % r # 0 <=> n # 0
    <3>1. CASE n >= 0
      BY <1>4, <2>2, <3>1
    <3>2. CASE n < 0
      <4>1. n = r * (-1) + (n + r) /\ n + r \in 0 .. r - 1 /\ r \in Nat \ {0}
        BY <1>4, <2>2, <3>2
      <4>2. n \in Int
        BY <2>2
      <4>3. n + r = n % r
        BY <4>1, <4>2, DivModIs
      <4> QED
        BY <1>4, <2>2, <3>2, <4>3
    <3> QED
      BY <2>2, <3>1, <3>2
  <2> QED
    BY <2>2, <2>3, <2>4
<1> QED
  BY <1>9, <1>10, <1>11 DEF y, w, r

-----------------------------------------------------------------------------
(* From a text to the stored row. *)

(* What a column of characters that are no NUL is read as: without the     *)
(* padding, and cut to the slot.                                           *)
Padded(s, b) == [k \in 1 .. b |-> IF k <= Len(s) THEN s[k] ELSE Zero]
CutTo(s, b)  == SubSeq(s, 1, IF Len(s) < b THEN Len(s) ELSE b)

(* The padding is taken off, and nothing else.                              *)
LEMMA TrimmedPad ==
  ASSUME NEW s \in Seq(Chars), NEW b \in Nat
  PROVE  /\ Trimmed(Padded(s, b)) = CutTo(s, b)
         /\ CutTo(s, b) \in Seq(Chars)
<1> DEFINE p == Padded(s, b)
           I == {0} \cup {i \in DOMAIN p : p[i] # Zero}
           n == IF Len(s) < b THEN Len(s) ELSE b
<1>1. Len(s) \in Nat /\ n \in Nat /\ n <= b /\ n <= Len(s) /\ Zero \notin Chars
  BY LiteralAssumption
<1>2. DOMAIN p = 1 .. b /\ Len(p) = b
  BY DEF Padded
<1>3. \A i \in 1 .. n : p[i] = s[i] /\ s[i] \in Chars /\ i \in DOMAIN p
  BY <1>1, <1>2 DEF Padded
<1>4. \A i \in 1 .. b : p[i] # Zero => i <= n
  BY <1>1 DEF Padded
<1>5. I = 0 .. n
  <2> HIDE DEF p, n
  <2> QED
    BY <1>1, <1>2, <1>3, <1>4
<1>6. Max(I) = n
  <2>1. I \in SUBSET Nat /\ I # {} /\ \A x \in I : x <= n
    <3> HIDE DEF n, I
    <3> QED
      BY <1>1, <1>5
  <2> HIDE DEF I
  <2>2. Max(I) \in I /\ \A y \in I : y <= Max(I)
    BY <1>1, <2>1, Greatest
  <2> HIDE DEF n
  <2>3. n \in I
    BY <1>1, <1>5
  <2>4. PICK x \in I : x = Max(I)
    BY <2>2
  <2>5. x <= n /\ n <= x /\ x \in Nat
    BY <2>1, <2>2, <2>3, <2>4
  <2> QED
    BY <1>1, <2>4, <2>5
<1>7. Trimmed(p) = SubSeq(p, 1, n)
  BY <1>6 DEF Trimmed
<1>8. CutTo(s, b) = SubSeq(s, 1, n)
  BY DEF CutTo
<1> HIDE DEF I
<1>9. SubSeq(p, 1, n) = SubSeq(s, 1, n)
  <2>1. p \in Seq(Chars \cup {Zero})
    BY <1>1 DEF Padded
  <2> DEFINE x == SubSeq(p, 1, n)
             y == SubSeq(s, 1, n)
  <2> HIDE DEF p, n
  <2>2. /\ x \in Seq(Chars \cup {Zero}) /\ Len(x) = n
        /\ \A i \in 1 .. n : x[i] = p[i]
    BY <1>1, <1>2, <2>1
  <2>3. /\ y \in Seq(Chars \cup {Zero}) /\ Len(y) = n
        /\ \A i \in 1 .. n : y[i] = s[i]
    BY <1>1
  <2> HIDE DEF x, y
  <2> QED
    BY <1>3, <2>2, <2>3
<1>10. SubSeq(s, 1, n) \in Seq(Chars)
  <2> HIDE DEF n
  <2> QED
    BY <1>1
<1> QED
  BY <1>7, <1>8, <1>9, <1>10

(* What the scanner finds in a value.                                      *)
LEMMA SpanChars ==
  ASSUME NEW l \in Lits
  PROVE  Span(l) \in Seq(Chars)
<1> DEFINE s == l.chars
           k == {i \in DOMAIN s : s[i] # Blank}
<1>1. s \in Seq(Chars)
  BY DEF Lits
<1> HIDE DEF s
<1>2. Len(s) \in Nat /\ k \in SUBSET Nat /\ k \subseteq 1 .. Len(s)
      /\ \A x \in k : x <= Len(s)
  BY <1>1
<1> HIDE DEF k
<1>3. ASSUME k # {} PROVE SubSeq(s, Min(k), Max(k)) \in Seq(Chars)
  <2>1. Min(k) \in k
    BY <1>2, <1>3, Least
  <2>2. Max(k) \in k
    BY <1>2, <1>3, Greatest
  <2>3. PICK x \in k : x = Min(k)
    BY <2>1
  <2>4. PICK y \in k : y = Max(k)
    BY <2>2
  <2>5. x \in 1 .. Len(s) /\ y \in 1 .. Len(s)
    BY <1>2
  <2>6. SubSeq(s, x, y) \in Seq(Chars)
    BY <1>1, <2>5
  <2> QED
    BY <2>3, <2>4, <2>6
<1>4. Trim(s) \in Seq(Chars)
  <2>1. Trim(s) = IF k = {} THEN <<>> ELSE SubSeq(s, Min(k), Max(k))
    BY Zenon DEF Trim, k
  <2> QED
    BY <1>3, <2>1
<1> QED
  BY <1>4 DEF Span, s

(* The digits that a text begins with.                                     *)
LEMMA DigitsAre ==
  ASSUME NEW s \in Seq(Chars)
  PROVE  /\ Len(Digits(s)) \in Nat
         /\ \A i \in 1 .. Len(Digits(s)) :
              Digit[Digits(s)[i]] \in 0 .. Base - 1
<1> DEFINE d == Unsign(s)
           K == {k \in 0 .. Len(d) : \A i \in 1 .. k : IsDigit(d[i])}
           n == Max(K)
<1>1. d \in Seq(Chars)
  BY DEF Unsign, HasSign
<1>2. Digits(s) = SubSeq(d, 1, n)
  BY DEF Digits, Unsign
<1> HIDE DEF d
<1>3. K \in SUBSET Nat /\ 0 \in K /\ Len(d) \in Nat /\ \A x \in K : x <= Len(d)
  BY <1>1
<1>4. n \in K
  <2> HIDE DEF K
  <2> QED
    BY <1>3, Greatest
<1>5. n \in 0 .. Len(d) /\ \A i \in 1 .. n : IsDigit(d[i])
  <2> HIDE DEF n
  <2> QED
    BY <1>4
<1> HIDE DEF n, K
<1>6. /\ Len(SubSeq(d, 1, n)) = n
      /\ \A i \in 1 .. n : SubSeq(d, 1, n)[i] = d[i]
  BY <1>1, <1>5
<1>7. \A i \in 1 .. n : Digit[d[i]] \in 0 .. Base - 1
  BY <1>5, LiteralAssumption DEF IsDigit
<1> QED
  BY <1>2, <1>5, <1>6, <1>7

(* The converters return numbers.                                          *)
LEMMA AccumulatedNat ==
  ASSUME NEW s \in Seq(Chars), NEW lim \in Nat
  PROVE  Accumulated(s, lim) \in Nat
<1> DEFINE ds == Digits(s)
           n  == Len(ds)
           F  == [q \in (1 .. n) \X Nat |->
                    OneDigit(q[2], Digit[ds[q[1]]], lim)]
<1>1. n \in Nat /\ \A i \in 1 .. n : Digit[ds[i]] \in Nat
  <2>1. Base \in Nat
    BY TextAssumption
  <2> QED
    BY <2>1, DigitsAre
<1> HIDE DEF ds, n
<1>2. \A i \in 1 .. n, x \in Nat :
        F[<<i, x>>] = OneDigit(x, Digit[ds[i]], lim)
  OBVIOUS
<1> HIDE DEF F
<1>3. \A x, d \in Nat : OneDigit(x, d, lim) \in Nat
  <2>1. Base \in Nat
    BY TextAssumption
  <2>2. \A x, d \in Nat : x * Base + d \in Nat
    BY <2>1
  <2> QED
    BY <2>2 DEF OneDigit
<1>4. \A i \in 1 .. n, x \in Nat : F[<<i, x>>] \in Nat
  BY <1>1, <1>2, <1>3
<1>5. 0 \in Nat
  OBVIOUS
<1>6. PICK h : Passes(h, F, Nat, 0, n)
  BY <1>1, <1>4, <1>5, Recursion
<1>7. /\ h \in [0 .. n -> Nat] /\ h[0] = 0
      /\ \A i \in 1 .. n : h[i] = F[<<i, h[i - 1]>>]
  BY <1>6 DEF Passes
<1>8. \A i \in 1 .. n : h[i - 1] \in Nat
  BY <1>1, <1>7
<1>9. \A i \in 1 .. n : h[i] = OneDigit(h[i - 1], Digit[ds[i]], lim)
  BY <1>2, <1>7, <1>8
<1>10. h[n] \in Nat
  BY <1>1, <1>7
<1>11. Loops(h, Digits(s), lim)
  BY <1>7, <1>9 DEF Loops, n, ds
<1>12. Accumulated(s, lim) = h[n]
  BY <1>1, <1>11, AccumulatedIs DEF n, ds
<1> QED
  BY <1>10, <1>12

(* They return numbers for any text.                                        *)
LEMMA ConvertedInt ==
  ASSUME NEW s \in Seq(Chars)
  PROVE  /\ fastAtoi64(s) \in Int /\ fastAtou64(s) \in Int
         /\ fastTsParse(s) \in Int /\ DoubleBits(s) \in Int
<1>1. /\ Range64 \in Nat /\ Half \in Nat /\ Half - 1 \in Nat
      /\ Range64 - 1 \in Nat /\ Range64 # 0
  BY WordFacts
<1>2. /\ Accumulated(s, Half) \in Nat /\ Accumulated(s, Half - 1) \in Nat
      /\ Accumulated(s, Range64 - 1) \in Nat
  BY <1>1, AccumulatedNat
<1>3. \A x \in Int : x % Range64 \in Int
  BY <1>1
<1>4. fastAtoi64(s) \in Int
  BY <1>2 DEF fastAtoi64
<1>5. fastAtou64(s) \in Int
  BY <1>2, <1>3 DEF fastAtou64
<1>6. fastTsParse(s) \in Int
  BY <1>4 DEF fastTsParse
<1>7. DoubleBits(s) \in Int
  BY LiteralAssumption DEF DoubleBits
<1> QED
  BY <1>4, <1>5, <1>6, <1>7

(* Whether a column holds text, and what a number in it is converted by:   *)
(* the first column as a timestamp.                                        *)
IsText(c) == Rep(columns[c].type) = "string"
Conversion(c, s) == IF c = 1 THEN fastTsParse(s)
                    ELSE IF columns[c].type \in Unsigned THEN fastAtou64(s)
                    ELSE IF columns[c].type = "TIMESTAMP" THEN DoubleBits(s)
                    ELSE fastAtoi64(s)

(* The types and widths of the columns of a table.                         *)
LEMMA ColumnFacts ==
  ASSUME columns \in Schemas, NEW c \in Columns
  PROVE  /\ c \in Nat \ {0} /\ TypeOf(c) = columns[c].type
         /\ BytesOf(c) = columns[c].bytes /\ columns[c].bytes \in Nat
         /\ Len(columns) \in Nat \ {0} /\ Columns = 1 .. Len(columns)
         /\ IsText(c) => columns[c].type \in Strings /\ c # 1
         /\ ~IsText(c) => /\ columns[c].type \in DOMAIN Bytes
                          /\ columns[c].bytes = Bytes[columns[c].type]
                          /\ Bytes[columns[c].type] \in Nat \ {0}
         /\ c = 1 => columns[c].type = "TIMESTAMP" /\ columns[c].bytes = Word
<1> DEFINE AColumn == [type : Types, bytes : Nat]
<1>1. /\ columns \in Seq(AColumn)
      /\ Len(columns) > 0 /\ columns[1].type = "TIMESTAMP"
      /\ \A k \in 1 .. Len(columns) :
           columns[k].type \in DOMAIN Bytes
             => columns[k].bytes = Bytes[columns[k].type]
  BY TextAssumption DEF Types
<1>2. "TIMESTAMP" \in DOMAIN Bytes /\ Bytes["TIMESTAMP"] = Word
  BY TextAssumption
<1> HIDE DEF AColumn
<1>3. /\ Len(columns) \in Nat \ {0} /\ Columns = 1 .. Len(columns)
      /\ columns[c] \in AColumn /\ c \in 1 .. Len(columns)
  BY <1>1 DEF Columns
<1>4. TypeOf(c) = columns[c].type /\ BytesOf(c) = columns[c].bytes
  BY <1>3 DEF TypeOf, BytesOf
<1>5. columns[c].type \in Types /\ columns[c].bytes \in Nat
  BY <1>3 DEF AColumn
<1>6. /\ \A t \in DOMAIN Bytes : Rep(t) # "string"
      /\ \A t \in Strings : Rep(t) = "string"
  BY Reps
<1>7. \A t \in DOMAIN Bytes : Bytes[t] \in Nat \ {0}
  BY ByteFacts
<1>8. IsText(c) => columns[c].type \in Strings /\ c # 1
  BY <1>1, <1>2, <1>5, <1>6 DEF IsText, Types
<1>9. ~IsText(c) => columns[c].type \in DOMAIN Bytes
  BY <1>5, <1>6 DEF IsText, Types
<1> QED
  BY <1>1, <1>2, <1>3, <1>4, <1>5, <1>7, <1>8, <1>9

(* What the slot of a value holds.                                         *)
LEMMA SlotHolds ==
  ASSUME columns \in Schemas, NEW c \in Columns, NEW s \in Seq(Chars)
  PROVE  /\ IsText(c) => Slot(c, TypeOf(c), BytesOf(c), s)
                           = Padded(s, columns[c].bytes)
         /\ ~IsText(c) =>
              /\ Conversion(c, s) \in Int
              /\ Len(Slot(c, TypeOf(c), BytesOf(c), s))
                   = Bytes[columns[c].type]
              /\ FromNetwork(Slot(c, TypeOf(c), BytesOf(c), s))
                   = Conversion(c, s) % Power(Byte, Bytes[columns[c].type])
<1> DEFINE t == columns[c].type
           b == columns[c].bytes
           x == Slot(c, TypeOf(c), BytesOf(c), s)
           v == Conversion(c, s)
<1>1. /\ TypeOf(c) = t /\ BytesOf(c) = b
      /\ IsText(c) => t \in Strings /\ c # 1
      /\ ~IsText(c) => t \in DOMAIN Bytes /\ b = Bytes[t] /\ b \in Nat
      /\ c = 1 => t = "TIMESTAMP" /\ b = Word
  BY ColumnFacts
<1>2. /\ fastAtoi64(s) \in Int /\ fastAtou64(s) \in Int
      /\ fastTsParse(s) \in Int /\ DoubleBits(s) \in Int
  BY ConvertedInt
<1>3. v \in Int
  BY <1>2 DEF Conversion
<1>4. x = Slot(c, t, b, s)
  BY <1>1
<1>5. CASE IsText(c)
  <2>1. x = [k \in 1 .. b |-> IF k <= Len(s) THEN s[k] ELSE Zero]
    BY <1>1, <1>4, <1>5 DEF Slot, Unsigned, Signed, Strings
  <2> QED
    BY <1>5, <2>1 DEF Padded
<1>6. CASE ~IsText(c)
  <2>1. x = Network(v, b)
    <3>1. CASE c = 1
      <4>1. Slot(c, t, b, s) = Network(fastTsParse(s), Word)
        BY <3>1, Zenon DEF Slot
      <4> QED
        BY <1>1, <1>4, <3>1, <4>1 DEF Conversion
    <3>2. CASE c # 1 /\ t \in Unsigned
      <4>1. Slot(c, t, b, s) = Network(fastAtou64(s), b)
        BY <3>2 DEF Slot, Unsigned, Signed, Strings
      <4> QED
        BY <1>4, <3>2, <4>1 DEF Conversion
    <3>3. CASE c # 1 /\ t \in Signed \cup {"BOOL"}
      <4>1. Slot(c, t, b, s)
              = Network(IF t = "TIMESTAMP" THEN DoubleBits(s) ELSE fastAtoi64(s), b)
        BY <3>3 DEF Slot, Unsigned, Signed, Strings
      <4>2. t \notin Unsigned
        BY <3>3 DEF Unsigned, Signed
      <4> QED
        BY <1>4, <3>3, <4>1, <4>2 DEF Conversion
    <3>4. t \in Unsigned \cup Signed \cup {"BOOL"}
      BY <1>1, <1>6, Reps
    <3> QED
      BY <3>1, <3>2, <3>3, <3>4
  <2>2. Len(x) = b /\ FromNetwork(x) = v % Power(Byte, b)
    <3> HIDE DEF v, b, x
    <3> QED
      BY <1>1, <1>3, <1>6, <2>1, NetworkReads
  <2> HIDE DEF x, v
  <2>3. b = Bytes[t]
    BY <1>1, <1>6
  <2> QED
    BY <1>3, <1>6, <2>2, <2>3 DEF x, v
<1> QED
  BY <1>5, <1>6

-----------------------------------------------------------------------------
(* What the rows hold is what was written. *)

SlotOf(r, c) == Slot(c, TypeOf(c), BytesOf(c), Span(Scanned(text[r])[c]))
HoldInv ==
  /\ \A r \in DOMAIN rows : \A c \in DOMAIN rows[r] : rows[r][c] = SlotOf(r, c)
  /\ \A c \in DOMAIN row : row[c] = SlotOf(group, c)

(* What is stored stays: all the rows, in the order of the server.         *)
KeptInv ==
  /\ layout # "none" => stage = "stored"
  /\ stage = "stored" =>
       /\ Len(rows) = Len(text)
       /\ \A r \in DOMAIN rows : AllOf(r) /\ Matches(rows[r])
       /\ image = [r \in DOMAIN rows |-> StoredRow(rows[r])]

WrittenInv == PackInv /\ HoldInv /\ KeptInv

(* The value that a group was written with, without its blanks.            *)
ValueIn(r, c) == Span(text[r].vals[c])

(* What the scanner takes of a group are its values, in order.              *)
LEMMA ScannedValue ==
  ASSUME NEW g \in Group, Cut(g), NEW c \in 1 .. Len(Scanned(g))
  PROVE  Scanned(g)[c] = g.vals[c] /\ g.vals[c] \in Lits /\ c \in DOMAIN g.vals
<1> DEFINE v == g.vals
<1>1. v \in Seq(Lits)
  BY DEF Group
<1> HIDE DEF v
<1>2. CASE g.end = "cut"
  <2>1. Scanned(g) = SubSeq(v, 1, Len(v) - 1) /\ v # <<>>
    BY <1>2 DEF Scanned, Front, Cut, v
  <2>2. Len(v) \in Nat /\ Len(v) > 0
    BY <1>1, <2>1
  <2>3. /\ Len(Scanned(g)) = Len(v) - 1
        /\ \A i \in 1 .. Len(v) - 1 : Scanned(g)[i] = v[i]
    BY <1>1, <2>1, <2>2
  <2>4. c \in 1 .. Len(v) - 1 /\ c \in 1 .. Len(v)
    BY <2>2, <2>3
  <2> QED
    BY <1>1, <2>3, <2>4 DEF v
<1>3. CASE g.end # "cut"
  <2>1. Scanned(g) = v
    BY <1>3 DEF Scanned, v
  <2> QED
    BY <1>1, <2>1 DEF v
<1> QED
  BY <1>2, <1>3

(* The rows of a message and the image of them that the server keeps.      *)
LEMMA ImageShape ==
  ASSUME WrittenInv, stage = "stored"
  PROVE  /\ columns \in Schemas /\ text \in Seq(Group)
         /\ Len(image) = Len(text) /\ DOMAIN image = 1 .. Len(text)
         /\ \A r \in DOMAIN image : \A c \in Columns :
              /\ c \in 1 .. Len(Scanned(text[r]))
              /\ image[r][c] = IF IsText(c) THEN SlotOf(r, c)
                               ELSE Host(FromNetwork(SlotOf(r, c)),
                                         Len(SlotOf(r, c)))
<1>1. /\ columns \in Schemas /\ text \in Seq(Group)
      /\ rows \in Seq(Seq(Slots))
  BY DEF WrittenInv, PackInv, PackTyped
<1>2. /\ Len(rows) = Len(text)
      /\ \A r \in DOMAIN rows : AllOf(r) /\ Matches(rows[r])
      /\ image = [r \in DOMAIN rows |-> StoredRow(rows[r])]
  BY DEF WrittenInv, KeptInv
<1>3. \A r \in DOMAIN rows : \A c \in DOMAIN rows[r] :
        rows[r][c] = SlotOf(r, c)
  BY DEF WrittenInv, HoldInv
<1>4. DOMAIN rows = 1 .. Len(text) /\ Len(text) \in Nat
  BY <1>1, <1>2
<1>5. Len(image) = Len(text) /\ DOMAIN image = 1 .. Len(text)
  BY <1>2, <1>4
<1>6. ASSUME NEW r \in DOMAIN image, NEW c \in Columns
      PROVE  /\ c \in 1 .. Len(Scanned(text[r]))
             /\ image[r][c] = IF IsText(c) THEN SlotOf(r, c)
                              ELSE Host(FromNetwork(SlotOf(r, c)),
                                        Len(SlotOf(r, c)))
  <2>1. r \in DOMAIN rows /\ image[r] = StoredRow(rows[r])
    BY <1>2, <1>4, <1>5
  <2>2. rows[r] \in Seq(Slots)
    BY <1>1, <2>1
  <2>3. /\ Len(rows[r]) = Len(columns)
        /\ Len(rows[r]) = Len(Scanned(text[r]))
    BY <1>2, <2>1 DEF Matches, AllOf
  <2>4. Columns = 1 .. Len(columns)
    BY <1>1, ColumnFacts
  <2>5. c \in DOMAIN rows[r] /\ c \in 1 .. Len(Scanned(text[r]))
    <3>1. DOMAIN rows[r] = 1 .. Len(rows[r])
      BY <2>2
    <3>2. c \in 1 .. Len(rows[r])
      BY <2>3, <2>4
    <3> QED
      BY <2>3, <3>1, <3>2
  <2>6. rows[r][c] = SlotOf(r, c)
    BY <1>3, <2>1, <2>5
  <2>7. image[r][c] = IF IsText(c) THEN rows[r][c]
                      ELSE Host(FromNetwork(rows[r][c]), Len(rows[r][c]))
    BY <2>1, Zenon DEF StoredRow, IsText
  <2> QED
    BY <2>5, <2>6, <2>7
<1> QED
  BY <1>1, <1>5, <1>6

(* What the server keeps of a value.                                       *)
LEMMA ImageOf ==
  ASSUME WrittenInv, stage = "stored", NEW r \in DOMAIN image,
         NEW c \in Columns
  PROVE  /\ ValueIn(r, c) \in Seq(Chars)
         /\ IsText(c) => image[r][c] = Padded(ValueIn(r, c), columns[c].bytes)
         /\ ~IsText(c) =>
              /\ Conversion(c, ValueIn(r, c)) \in Int
              /\ Len(image[r][c]) = Bytes[columns[c].type]
              /\ FromHost(image[r][c])
                   = Conversion(c, ValueIn(r, c))
                       % Power(Byte, Bytes[columns[c].type])
<1> DEFINE s == ValueIn(r, c)
           t == columns[c].type
           w == Bytes[t]
           x == SlotOf(r, c)
           v == Conversion(c, s)
           p == Power(Byte, w)
<1>1. /\ columns \in Schemas /\ text \in Seq(Group) /\ r \in DOMAIN text
      /\ c \in 1 .. Len(Scanned(text[r]))
      /\ image[r][c] = IF IsText(c) THEN x ELSE Host(FromNetwork(x), Len(x))
  BY ImageShape
<1>2. text[r] \in Group /\ Cut(text[r])
  BY <1>1 DEF WrittenInv, PackInv, PackTyped
<1>3. Scanned(text[r])[c] = text[r].vals[c] /\ text[r].vals[c] \in Lits
  BY <1>1, <1>2, ScannedValue
<1>4. s \in Seq(Chars)
  BY <1>3, SpanChars DEF ValueIn
<1>5. x = Slot(c, TypeOf(c), BytesOf(c), s)
  BY <1>3 DEF SlotOf, ValueIn
<1> HIDE DEF s
<1>6. /\ IsText(c) => x = Padded(s, columns[c].bytes)
      /\ ~IsText(c) => /\ v \in Int /\ Len(x) = w /\ FromNetwork(x) = v % p
  <2> HIDE DEF x
  <2> QED
    BY <1>1, <1>4, <1>5, SlotHolds
<1>7. ASSUME ~IsText(c)
      PROVE  Len(image[r][c]) = w /\ FromHost(image[r][c]) = v % p
  <2>1. w \in Nat \ {0}
    BY <1>1, <1>7, ColumnFacts
  <2> HIDE DEF x, v, w
  <2>2. p \in Nat /\ p >= 4
    BY <2>1, WidthFacts
  <2>3. image[r][c] = Host(v % p, w)
    BY <1>1, <1>6, <1>7
  <2> HIDE DEF p
  <2>4. v % p \in Int /\ (v % p) % p = v % p
    BY <1>6, <1>7, <2>2
  <2>5. /\ Len(Host(v % p, w)) = w
        /\ FromHost(Host(v % p, w)) = (v % p) % Power(Byte, w)
    <3>1. w \in Nat
      BY <2>1
    <3> QED
      BY <2>4, <3>1, HostReads
  <2> QED
    BY <2>3, <2>4, <2>5 DEF p
<1> HIDE DEF x, v, w, p
<1>8. IsText(c) => image[r][c] = Padded(s, columns[c].bytes)
  BY <1>1, <1>6
<1> QED
  BY <1>4, <1>6, <1>7, <1>8 DEF s, v, w, p, t

(* While nobody writes, a value keeps its slot.                             *)
LEMMA SlotStays ==
  ASSUME columns' = columns, text' = text
  PROVE  \A r, c : SlotOf(r, c)' = SlotOf(r, c)
BY DEF SlotOf, TypeOf, BytesOf

(* A value is packed after those before it, a row after those before it.   *)
LEMMA HoldPack ==
  ASSUME WrittenInv, Pack
  PROVE  HoldInv'
<1>1. /\ columns' = columns /\ text' = text /\ stage = "pack"
      /\ PackTyped /\ PackPlace
  BY DEF Pack, PackValue, EndRow, EndText, Packing, WrittenInv, PackInv
<1>2. /\ \A r \in DOMAIN rows : \A c \in DOMAIN rows[r] :
           rows[r][c] = SlotOf(r, c)
      /\ \A c \in DOMAIN row : row[c] = SlotOf(group, c)
  BY DEF WrittenInv, HoldInv
<1>3. \A r, c : SlotOf(r, c)' = SlotOf(r, c)
  BY <1>1, SlotStays
<1>4. /\ row \in Seq(Slots) /\ rows \in Seq(Seq(Slots)) /\ group \in Nat \ {0}
      /\ Len(row) \in Nat /\ Len(rows) \in Nat /\ text \in Seq(Group)
  BY <1>1 DEF PackTyped
<1>5. CASE UNCHANGED <<row, rows, group>>
  BY <1>2, <1>3, <1>5 DEF HoldInv
<1>6. CASE row' = Append(row, NextSlot) /\ UNCHANGED <<group, rows>>
  <2> DEFINE x == NextSlot
  <2>1. x = SlotOf(group, Len(row) + 1)
    BY DEF NextSlot, SlotOf
  <2> HIDE DEF x
  <2>2. row' = Append(row, x)
    BY <1>6 DEF x
  <2>3. ASSUME NEW c \in DOMAIN row' PROVE row'[c] = SlotOf(group, c)
    <3>1. CASE c = Len(row) + 1
      <4>1. row'[c] = x
        BY <1>4, <2>2, <3>1
      <4> QED
        BY <2>1, <3>1, <4>1
    <3>2. CASE c # Len(row) + 1
      <4>1. c \in DOMAIN row /\ row'[c] = row[c]
        BY <1>4, <2>2, <2>3, <3>2
      <4> QED
        BY <1>2, <4>1
    <3> QED
      BY <3>1, <3>2
  <2> QED
    BY <1>2, <1>3, <1>6, <2>3 DEF HoldInv
<1>7. CASE /\ rows' = Append(rows, row) /\ row' = <<>> /\ row # <<>>
           /\ group <= Len(text)
  <2>1. Len(rows) = group - 1
    BY <1>1, <1>4, <1>7 DEF PackPlace
  <2>2. ASSUME NEW r \in DOMAIN rows', NEW c \in DOMAIN rows'[r]
        PROVE  rows'[r][c] = SlotOf(r, c)
    <3>1. CASE r = Len(rows) + 1
      <4>1. rows'[r] = row /\ r = group
        BY <1>4, <1>7, <2>1, <3>1
      <4>2. c \in DOMAIN row
        BY <2>2, <4>1
      <4> QED
        BY <1>2, <4>1, <4>2
    <3>2. CASE r # Len(rows) + 1
      <4>1. r \in DOMAIN rows /\ rows'[r] = rows[r]
        BY <1>4, <1>7, <2>2, <3>2
      <4>2. c \in DOMAIN rows[r]
        BY <2>2, <4>1
      <4> QED
        BY <1>2, <4>1, <4>2
    <3> QED
      BY <3>1, <3>2
  <2>3. DOMAIN row' = {}
    BY <1>7
  <2> QED
    BY <1>3, <2>2, <2>3 DEF HoldInv
<1>8. CASE row = <<>> /\ UNCHANGED <<row, rows>>
  <2>1. DOMAIN row' = {}
    BY <1>8
  <2> QED
    BY <1>2, <1>3, <1>8, <2>1 DEF HoldInv
<1>9. CASE PackValue
  <2>1. \/ UNCHANGED packer
        \/ row' = Append(row, NextSlot) /\ UNCHANGED <<group, rows>>
    BY <1>9 DEF PackValue, Refuse
  <2> QED
    BY <1>5, <1>6, <2>1 DEF packer
<1>10. CASE EndRow
  <2>1. \/ UNCHANGED packer
        \/ row = <<>> /\ UNCHANGED <<row, rows>>
        \/ /\ rows' = Append(rows, row) /\ row' = <<>> /\ row # <<>>
           /\ group <= Len(text)
    BY <1>10 DEF EndRow, Refuse
  <2> QED
    BY <1>5, <1>7, <1>8, <2>1 DEF packer
<1>11. CASE EndText
  BY <1>5, <1>11 DEF EndText, packer
<1> QED
  BY <1>9, <1>10, <1>11 DEF Pack

(* Every step keeps what the rows hold.                                    *)
LEMMA HoldStep ==
  ASSUME WrittenInv, [RowNext]_rowVars
  PROVE  HoldInv'
<1>1. CASE WriteText
  <2>1. stage = "write" /\ UNCHANGED packer
    BY <1>1 DEF WriteText, WriteGroup, WriteValue, EndOfText, Writing
  <2>2. row = <<>> /\ rows = <<>>
    BY <2>1 DEF WrittenInv, PackInv, PackPlace
  <2>3. row' = <<>> /\ rows' = <<>>
    BY <2>1, <2>2 DEF packer
  <2>4. DOMAIN row' = {} /\ DOMAIN rows' = {}
    BY <2>3
  <2> QED
    BY <2>4 DEF HoldInv
<1>2. CASE Pack
  BY <1>2, HoldPack
<1>3. CASE UNCHANGED <<columns, text, packer>>
  <2>1. \A r, c : SlotOf(r, c)' = SlotOf(r, c)
    BY <1>3, SlotStays
  <2> QED
    BY <1>3, <2>1 DEF HoldInv, packer, WrittenInv
<1>4. CASE Store
  BY <1>3, <1>4 DEF Store
<1>5. CASE UNCHANGED insert
  BY <1>3, <1>5 DEF insert
<1> QED
  BY <1>1, <1>2, <1>4, <1>5
     DEF RowNext, ReturnRaw, ReturnTagged, StoreValue, StoreNull,
         StoreString, StoreNumber, Malformed, Receiving, rowVars

(* Every step keeps what is stored.                                        *)
LEMMA KeptStep ==
  ASSUME WrittenInv, [RowNext]_rowVars
  PROVE  KeptInv'
<1>1. KeptInv /\ PackPlace
  BY DEF WrittenInv, PackInv
<1>2. CASE (WriteText \/ Pack) /\ UNCHANGED <<image, result>>
  <2>1. stage \in {"write", "pack"} /\ layout' = layout
    BY <1>2 DEF WriteText, WriteGroup, WriteValue, EndOfText, Writing, Pack,
                PackValue, EndRow, EndText, Packing, result
  <2>2. stage' \in {stage, "pack", "packed", "refused"}
    <3>1. WriteText => stage' \in {stage, "pack"}
      BY DEF WriteText, WriteGroup, WriteValue, EndOfText, Writing
    <3>2. Pack => stage' \in {stage, "packed", "refused"}
      BY DEF Pack, PackValue, EndRow, EndText, Refuse
    <3> QED
      BY <1>2, <3>1, <3>2
  <2> QED
    BY <1>1, <2>1, <2>2 DEF KeptInv
<1>3. CASE Store
  <2>1. /\ stage = "packed" /\ \A r \in DOMAIN rows : Matches(rows[r])
        /\ image' = [r \in DOMAIN rows |-> StoredRow(rows[r])]
        /\ UNCHANGED <<columns, text, packer, layout>> /\ stage' = "stored"
    BY <1>3 DEF Store, result
  <2>2. Len(rows) = Len(text) /\ \A r \in DOMAIN rows : AllOf(r)
    BY <1>1, <2>1 DEF PackPlace
  <2>3. UNCHANGED <<columns, text, rows, layout>>
    BY <2>1 DEF packer
  <2>5. [r \in DOMAIN rows |-> StoredRow(rows[r])]'
          = [r \in DOMAIN rows |-> StoredRow(rows[r])]
    BY <2>3 DEF StoredRow, Columns
  <2>6. image' = [r \in DOMAIN rows |-> StoredRow(rows[r])]'
    BY <2>1, <2>5
  <2>7. /\ Len(rows)' = Len(text)'
        /\ (\A r \in DOMAIN rows : AllOf(r) /\ Matches(rows[r]))'
    BY <2>1, <2>2, <2>3 DEF AllOf, Matches
  <2> QED
    BY <2>1, <2>6, <2>7, Zenon DEF KeptInv
<1>4. CASE /\ UNCHANGED <<insert, image>>
           /\ layout' = layout \/ stage = "stored"
  <2>1. UNCHANGED <<columns, text, rows, stage, image>>
    BY <1>4 DEF insert, packer
  <2>2. [r \in DOMAIN rows |-> StoredRow(rows[r])]'
          = [r \in DOMAIN rows |-> StoredRow(rows[r])]
    BY <2>1 DEF StoredRow, Columns
  <2> QED
    BY <1>1, <1>4, <2>1, <2>2 DEF KeptInv, AllOf, Matches
<1> QED
  BY <1>2, <1>3, <1>4
     DEF RowNext, ReturnRaw, ReturnTagged, StoreValue, StoreNull,
         StoreString, StoreNumber, Malformed, Receiving, rowVars, result

(* At first nothing is packed or stored.                                    *)
LEMMA WrittenInit == RowInit => WrittenInv
<1> SUFFICES ASSUME RowInit PROVE WrittenInv
  OBVIOUS
<1>1. PackInv
  BY PackInit DEF RowInit
<1>2. row = <<>> /\ rows = <<>> /\ stage = "write" /\ layout = "none"
  BY DEF RowInit, InsertInit
<1>3. DOMAIN row = {} /\ DOMAIN rows = {}
  BY <1>2
<1> QED
  BY <1>1, <1>2, <1>3 DEF WrittenInv, HoldInv, KeptInv

(* Every step keeps all of it.                                              *)
LEMMA WrittenStep ==
  ASSUME WrittenInv, [RowNext]_rowVars
  PROVE  WrittenInv'
BY PackStep, HoldStep, KeptStep DEF WrittenInv

-----------------------------------------------------------------------------
(* What is received is what is stored. *)

(* The number in a stored slot.                                            *)
LEMMA StoredNumber ==
  ASSUME WrittenInv, stage = "stored", NEW r \in DOMAIN image,
         NEW c \in Columns, ~IsText(c)
  PROVE  /\ FromHost(image[r][c]) \in Nat
         /\ FromHost(image[r][c]) <= Power(Byte, Bytes[columns[c].type]) - 1
         /\ Len(image[r][c]) = Bytes[columns[c].type]
         /\ columns[c].type \in DOMAIN Bytes
         /\ Bytes[columns[c].type] \in Nat \ {0}
<1> DEFINE w == Bytes[columns[c].type]
           p == Power(Byte, w)
           v == Conversion(c, ValueIn(r, c))
<1>1. columns \in Schemas
  BY ImageShape
<1>2. w \in Nat \ {0} /\ columns[c].type \in DOMAIN Bytes
  BY <1>1, ColumnFacts
<1>3. /\ v \in Int /\ Len(image[r][c]) = w
      /\ FromHost(image[r][c]) = v % p
  BY ImageOf
<1> HIDE DEF v
<1>4. p \in Nat /\ p >= 4
  <2> HIDE DEF w
  <2> QED
    BY <1>2, WidthFacts
<1> HIDE DEF p
<1>5. v % p \in Nat /\ v % p <= p - 1
  BY <1>3, <1>4
<1> QED
  BY <1>2, <1>3, <1>5 DEF p

(* The cell that a number is received into, whatever tag it is sent under. *)
SameNumber(cell, slot, type) ==
  IF Rep(type) = "bool" THEN FromHost(cell) # 0 <=> slot # 0
  ELSE FromHost(cell) = slot /\ Len(cell) = Width(type)

(* A cell holds the number that is stored.                                  *)
LEMMA SentNumber ==
  ASSUME WrittenInv, stage = "stored", NEW r \in DOMAIN image,
         NEW c \in Columns, ~IsText(c),
         NEW tag \in DOMAIN Bytes, tag \in Tags(columns[c].type)
  PROVE  LET cell == Cell(c, Parsed(tag, Encoded(tag, Held(r, c))))
         IN  /\ cell \in Seq(Int)
             /\ SameNumber(cell, FromHost(image[r][c]), columns[c].type)
<1> DEFINE t == columns[c].type
           w == Bytes[t]
           n == FromHost(image[r][c])
           v == Held(r, c)
           cell == Cell(c, Parsed(tag, Encoded(tag, v)))
<1>1. /\ n \in Nat /\ n <= Power(Byte, w) - 1 /\ Len(image[r][c]) = w
      /\ t \in DOMAIN Bytes /\ w \in Nat \ {0}
  BY StoredNumber
<1>2. t \in Unsigned \cup Signed \cup {"BOOL"}
  BY <1>1, Reps
<1>3. /\ Rep(t) = "uint" => v = n
      /\ Rep(t) \in {"int", "bool"} => v = ToSigned(n, w)
  <2>1. Len(image[r][c]) = w
    BY <1>1
  <2> DEFINE k == Rep(t)
  <2>2. v = CASE k = "string" -> Trimmed(image[r][c])
              [] k = "uint"   -> n
              [] k \in {"int", "bool"} -> ToSigned(n, Len(image[r][c]))
    BY Zenon DEF Held
  <2> HIDE DEF k, n, v
  <2> QED
    BY <2>1, <2>2 DEF k
<1>4. tag \in DOMAIN Bytes \cap Tags(t)
  OBVIOUS
<1>5. CASE t \in Unsigned
  <2>1. Rep(t) = "uint" /\ v = n
    BY <1>3, <1>5, Reps
  <2>2. v \in Nat /\ v <= Power(Byte, w) - 1
    BY <1>1, <2>1
  <2>3. t \in DOMAIN Bytes \cap Unsigned
    BY <1>1, <1>5
  <2> HIDE DEF v, n
  <2>4. cell \in Seq(Int) /\ Len(cell) = w /\ FromHost(cell) = v
    BY <1>4, <2>2, <2>3, UnsignedCell
  <2> HIDE DEF cell, w, t
  <2> QED
    BY <2>1, <2>4 DEF SameNumber, Width, w, t, n, v, cell
<1>6. CASE t \in Signed
  <2>1. Rep(t) = "int" /\ v = ToSigned(n, w)
    BY <1>3, <1>6, Reps
  <2> HIDE DEF v, n
  <2>2. /\ v \in Int /\ -(Power(Byte, w) \div 2) <= v
        /\ v <= Power(Byte, w) \div 2 - 1 /\ v % Power(Byte, w) = n
    BY <1>1, <2>1, SignedRange
  <2>3. t \in DOMAIN Bytes \cap Signed
    BY <1>1, <1>6
  <2>4. /\ cell \in Seq(Int) /\ Len(cell) = w
        /\ FromHost(cell) = v % Power(Byte, w)
    BY <1>4, <2>2, <2>3, SignedCell
  <2> HIDE DEF cell, w, t
  <2> QED
    BY <2>1, <2>2, <2>4 DEF SameNumber, Width, w, t, n, v, cell
<1>7. CASE t = "BOOL"
  <2>1. Rep(t) = "bool" /\ v = ToSigned(n, w)
    BY <1>3, <1>7, Reps
  <2> HIDE DEF v, n
  <2>2. v = 0 <=> n = 0
    BY <1>1, <2>1, SignedRange
  <2>3. cell \in Seq(Int) /\ (FromHost(cell) # 0 <=> v # 0)
    BY <1>7, BoolCell
  <2> HIDE DEF cell, w, t
  <2> QED
    BY <2>1, <2>2, <2>3 DEF SameNumber, w, t, n, v, cell
<1> QED
  BY <1>2, <1>5, <1>6, <1>7

(* What is sent of a text: the characters without the padding.             *)
LEMMA SentText ==
  ASSUME WrittenInv, stage = "stored", NEW r \in DOMAIN image,
         NEW c \in Columns, IsText(c)
  PROVE  /\ Held(r, c) = Trimmed(image[r][c])
         /\ Trimmed(image[r][c]) \in Seq(Chars)
         /\ Trimmed(image[r][c]) = CutTo(ValueIn(r, c), columns[c].bytes)
<1> DEFINE k == Rep(columns[c].type)
           n == FromHost(image[r][c])
<1>1. k = "string"
  BY DEF IsText
<1>2. Held(r, c) = CASE k = "string" -> Trimmed(image[r][c])
                     [] k = "uint"   -> n
                     [] k \in {"int", "bool"} -> ToSigned(n, Len(image[r][c]))
  BY Zenon DEF Held
<1> HIDE DEF k, n
<1>3. Held(r, c) = Trimmed(image[r][c])
  BY <1>1, <1>2
<1>4. columns[c].bytes \in Nat
  BY ImageShape, ColumnFacts
<1>5. /\ ValueIn(r, c) \in Seq(Chars)
      /\ image[r][c] = Padded(ValueIn(r, c), columns[c].bytes)
  BY ImageOf
<1> QED
  BY <1>3, <1>4, <1>5, TrimmedPad

(* The cells of a column received so far.                                  *)
RowsIn(c) == IF c < ci THEN ri ELSE ri - 1
NumbersIn(c) ==
  /\ pool[c] \in Seq(Seq(Int)) /\ Len(pool[c]) = RowsIn(c)
  /\ \A r \in 1 .. RowsIn(c) : ~isNull(r, c) =>
       SameNumber(pool[c][r], FromHost(image[r][c]), columns[c].type)

(* A piece of the characters of a column for each of its cells.            *)
TextsIn(c) ==
  /\ pool[c] \in Seq(Chars) /\ offs[c] \in Seq(Nat)
  /\ Len(offs[c]) = RowsIn(c) + 1 /\ offs[c][RowsIn(c) + 1] = Len(pool[c])
  /\ \A r \in 1 .. RowsIn(c) :
       /\ offs[c][r] <= offs[c][r + 1] /\ offs[c][r + 1] <= Len(pool[c])
       /\ ~isNull(r, c) => stringValue(r, c) = Trimmed(image[r][c])

ReadPlace ==
  /\ ri \in 1 .. Len(image) + 1 /\ ci \in 1 .. Len(columns)
  /\ ri = Len(image) + 1 => ci = 1
CellsIn(c) == IF IsText(c) THEN TextsIn(c) ELSE NumbersIn(c)
Reading ==
  /\ ReadPlace /\ DOMAIN pool = Columns /\ DOMAIN offs = Columns
  /\ \A c \in Columns : CellsIn(c)
Received == layout = "tagged" /\ ~error => Reading

(* One cell more in the column, as many as before in the others.           *)
LEMMA OneCell ==
  ASSUME columns \in Schemas, ReadPlace, ri <= Len(image), Len(image) \in Nat,
         Advance, UNCHANGED <<columns, image>>
  PROVE  /\ ReadPlace' /\ ci \in Columns
         /\ \A c \in Columns : RowsIn(c) \in Nat
         /\ RowsIn(ci) = ri - 1
         /\ \A c \in Columns : RowsIn(c)' = IF c = ci THEN ri ELSE RowsIn(c)
<1>1. \A c \in Columns :
        Len(columns) \in Nat \ {0} /\ Columns = 1 .. Len(columns)
  BY ColumnFacts
<1>2. Len(columns) \in Nat \ {0} /\ Columns = 1 .. Len(columns)
  <2>1. 1 \in Columns
    BY TextAssumption DEF Columns
  <2> QED
    BY <1>1, <2>1
<1>3. /\ ri \in Nat \ {0} /\ ci \in 1 .. Len(columns) /\ ri <= Len(image)
  BY DEF ReadPlace
<1> DEFINE m == Len(columns)
           l == Len(image)
<1> HIDE DEF m, l
<1>4. \/ ci = m /\ ri' = ri + 1 /\ ci' = 1
      \/ ci # m /\ ci' = ci + 1 /\ ri' = ri
  BY DEF Advance, m
<1>5. m \in Nat \ {0} /\ l \in Nat /\ ci \in 1 .. m /\ ri <= l
  BY <1>2, <1>3 DEF m, l
<1>6. ReadPlace'
  <2>1. ri' \in 1 .. l + 1 /\ ci' \in 1 .. m /\ (ri' = l + 1 => ci' = 1)
    BY <1>3, <1>4, <1>5
  <2>2. l = Len(image') /\ m = Len(columns')
    BY DEF l, m
  <2> QED
    BY <2>1, <2>2 DEF ReadPlace
<1>7. ASSUME NEW c \in 1 .. m
      PROVE  /\ RowsIn(c) \in Nat
             /\ RowsIn(c)' = IF c = ci THEN ri ELSE RowsIn(c)
  <2>1. RowsIn(c)' = IF c < ci' THEN ri' ELSE ri' - 1
    BY DEF RowsIn
  <2> QED
    BY <1>3, <1>4, <1>5, <2>1 DEF RowsIn
<1>8. RowsIn(ci) = ri - 1
  BY <1>3, <1>5 DEF RowsIn
<1> QED
  BY <1>2, <1>5, <1>6, <1>7, <1>8 DEF m

(* A column that nothing is added to.                                      *)
LEMMA OtherCells ==
  ASSUME NEW c \in Columns, CellsIn(c), pool'[c] = pool[c], offs'[c] = offs[c],
         RowsIn(c)' = RowsIn(c), nulls \subseteq nulls',
         UNCHANGED <<columns, image>>
  PROVE  CellsIn(c)'
<1>1. IsText(c)' = IsText(c)
  BY DEF IsText
<1>2. \A r : isNull(r, c) => isNull(r, c)'
  BY DEF isNull
<1>3. CASE IsText(c)
  <2>1. TextsIn(c)
    BY <1>3 DEF CellsIn
  <2>2. \A r : stringValue(r, c)' = stringValue(r, c)
    BY DEF stringValue
  <2>3. TextsIn(c)'
    BY <1>2, <2>1, <2>2 DEF TextsIn
  <2> QED
    BY <1>1, <1>3, <2>3 DEF CellsIn
<1>4. CASE ~IsText(c)
  <2>1. NumbersIn(c)
    BY <1>4 DEF CellsIn
  <2>2. NumbersIn(c)'
    BY <1>2, <2>1 DEF NumbersIn
  <2> QED
    BY <1>1, <1>4, <2>2 DEF CellsIn
<1> QED
  BY <1>3, <1>4

(* A cell is added to a column of numbers.                                 *)
LEMMA NumberAdded ==
  ASSUME NEW c \in Columns, ~IsText(c), CellsIn(c), NEW n \in Nat \ {0},
         RowsIn(c) = n - 1, RowsIn(c)' = n,
         NEW x \in Seq(Int), pool'[c] = Append(pool[c], x),
         nulls \subseteq nulls', UNCHANGED <<columns, image>>,
         \/ isNull(n, c)'
         \/ SameNumber(x, FromHost(image[n][c]), columns[c].type)
  PROVE  CellsIn(c)'
<1>1. NumbersIn(c)
  BY DEF CellsIn
<1>2. \A r : isNull(r, c) => isNull(r, c)'
  BY DEF isNull
<1> DEFINE p == pool[c]
           q == pool'[c]
<1>3. p \in Seq(Seq(Int)) /\ Len(p) = n - 1
  BY <1>1 DEF NumbersIn
<1>4. q = Append(p, x)
  OBVIOUS
<1> HIDE DEF p, q
<1>5. /\ q \in Seq(Seq(Int)) /\ Len(q) = n /\ q[n] = x
      /\ \A r \in 1 .. n - 1 : q[r] = p[r]
  BY <1>3, <1>4
<1>6. ASSUME NEW r \in 1 .. n, ~isNull(r, c)'
      PROVE  SameNumber(q[r], FromHost(image[r][c]), columns[c].type)
  <2>1. CASE r = n
    BY <1>5, <1>6, <2>1
  <2>2. CASE r # n
    <3>1. r \in 1 .. n - 1
      BY <2>2
    <3>2. SameNumber(p[r], FromHost(image[r][c]), columns[c].type)
      BY <1>1, <1>2, <1>6, <3>1 DEF NumbersIn, p
    <3> QED
      BY <1>5, <3>1, <3>2
  <2> QED
    BY <2>1, <2>2
<1>7. NumbersIn(c)'
  BY <1>5, <1>6 DEF NumbersIn, q
<1>8. ~IsText(c)'
  BY DEF IsText
<1> QED
  BY <1>7, <1>8 DEF CellsIn

(* A piece is added to a column of texts.                                  *)
LEMMA TextAdded ==
  ASSUME NEW c \in Columns, IsText(c), CellsIn(c), NEW n \in Nat \ {0},
         RowsIn(c) = n - 1, RowsIn(c)' = n,
         NEW x \in Seq(Chars), pool'[c] = pool[c] \o x,
         offs'[c] = Append(offs[c], Len(pool[c]) + Len(x)),
         nulls \subseteq nulls', UNCHANGED <<columns, image>>,
         isNull(n, c)' \/ x = Trimmed(image[n][c])
  PROVE  CellsIn(c)'
<1>1. TextsIn(c)
  BY DEF CellsIn
<1>2. \A r : isNull(r, c) => isNull(r, c)'
  BY DEF isNull
<1> DEFINE p == pool[c]
           q == pool'[c]
           o == offs[c]
           u == offs'[c]
<1>3. /\ p \in Seq(Chars) /\ o \in Seq(Nat) /\ Len(o) = n /\ o[n] = Len(p)
      /\ \A r \in 1 .. n - 1 : o[r] <= o[r + 1] /\ o[r + 1] <= Len(p)
  <2>1. (n - 1) + 1 = n
    OBVIOUS
  <2>2. RowsIn(c) + 1 = n
    BY <2>1
  <2>3. Len(o) = n /\ o[n] = Len(p)
    BY <1>1, <2>2 DEF TextsIn
  <2> QED
    BY <1>1, <2>3 DEF TextsIn
<1>4. q = p \o x /\ u = Append(o, Len(p) + Len(x))
  OBVIOUS
<1>5. \A r \in 1 .. n - 1 : ~isNull(r, c) =>
        SubSeq(p, o[r] + 1, o[r + 1]) = Trimmed(image[r][c])
  BY <1>1 DEF TextsIn, stringValue
<1> HIDE DEF p, q, o, u
<1>6. /\ q \in Seq(Chars) /\ Len(q) = Len(p) + Len(x) /\ Len(p) \in Nat
      /\ Len(x) \in Nat
      /\ \A i \in 1 .. Len(p) : q[i] = p[i]
      /\ \A i \in 1 .. Len(x) : q[Len(p) + i] = x[i]
  BY <1>3, <1>4
<1>7. /\ u \in Seq(Nat) /\ Len(u) = n + 1 /\ u[n + 1] = Len(q)
      /\ \A r \in 1 .. n : u[r] = o[r] /\ u[r] \in Nat
  <2> DEFINE k == Len(p) + Len(x)
  <2>1. k \in Nat /\ k = Len(q)
    BY <1>6
  <2>2. u = Append(o, k)
    BY <1>4
  <2> HIDE DEF k
  <2>3. /\ u \in Seq(Nat) /\ Len(u) = n + 1 /\ u[n + 1] = k
        /\ \A r \in 1 .. n : u[r] = o[r]
    BY <1>3, <2>1, <2>2
  <2>4. \A r \in 1 .. n : o[r] \in Nat
    BY <1>3
  <2> QED
    BY <2>1, <2>3, <2>4
<1>8. ASSUME NEW r \in 1 .. n
      PROVE  /\ u[r] <= u[r + 1] /\ u[r + 1] <= Len(q)
             /\ ~isNull(r, c)' =>
                  SubSeq(q, u[r] + 1, u[r + 1]) = Trimmed(image[r][c])
  <2>1. CASE r = n
    <3>1. u[r] = Len(p) /\ u[r + 1] = Len(p) + Len(x)
      BY <1>3, <1>6, <1>7, <2>1
    <3>2. SubSeq(q, Len(p) + 1, Len(p) + Len(x)) = x
      <4> DEFINE y == SubSeq(q, Len(p) + 1, Len(p) + Len(x))
      <4>1. /\ y \in Seq(Chars) /\ Len(y) = Len(x)
            /\ \A i \in 1 .. Len(x) : y[i] = q[Len(p) + i]
        BY <1>6
      <4> HIDE DEF y
      <4>2. y = x
        BY <1>6, <4>1
      <4> QED
        BY <4>2 DEF y
    <3> QED
      BY <1>6, <2>1, <3>1, <3>2
  <2>2. CASE r # n
    <3>1. r \in 1 .. n - 1 /\ r + 1 \in 1 .. n
      BY <2>2
    <3>2. /\ u[r] = o[r] /\ u[r + 1] = o[r + 1] /\ o[r] \in Nat
          /\ o[r + 1] \in Nat
      BY <1>7, <3>1
    <3>3. o[r] <= o[r + 1] /\ o[r + 1] <= Len(p)
      BY <1>3, <3>1
    <3> DEFINE a == o[r]
               b == o[r + 1]
    <3> HIDE DEF a, b
    <3>4. SubSeq(q, a + 1, b) = SubSeq(p, a + 1, b)
      <4> DEFINE y == SubSeq(q, a + 1, b)
                 z == SubSeq(p, a + 1, b)
      <4>1. a \in Nat /\ b \in Nat /\ a <= b /\ b <= Len(p)
        BY <3>2, <3>3 DEF a, b
      <4>2. /\ y \in Seq(Chars) /\ Len(y) = b - a
            /\ \A i \in 1 .. b - a : y[i] = q[a + i]
        BY <1>6, <4>1
      <4>3. /\ z \in Seq(Chars) /\ Len(z) = b - a
            /\ \A i \in 1 .. b - a : z[i] = p[a + i]
        BY <1>3, <4>1
      <4> HIDE DEF y, z
      <4>4. \A i \in 1 .. b - a : y[i] = z[i]
        <5>1. \A i \in 1 .. b - a : a + i \in 1 .. Len(p)
          BY <1>6, <4>1
        <5>2. \A i \in 1 .. b - a : q[a + i] = p[a + i]
          BY <1>6, <5>1
        <5> QED
          BY <4>2, <4>3, <5>2
      <4>5. y = z
        BY <4>2, <4>3, <4>4
      <4> QED
        BY <4>5 DEF y, z
    <3>5. ~isNull(r, c)' =>
            SubSeq(p, a + 1, b) = Trimmed(image[r][c])
      BY <1>2, <1>5, <3>1 DEF a, b
    <3>6. u[r + 1] <= Len(q)
      BY <1>6, <3>2, <3>3
    <3> QED
      BY <3>2, <3>3, <3>4, <3>5, <3>6 DEF a, b
  <2> QED
    BY <2>1, <2>2
<1>9. TextsIn(c)'
  <2>1. \A r : stringValue(r, c)' = SubSeq(q, u[r] + 1, u[r + 1])
    BY DEF stringValue, q, u
  <2> QED
    BY <1>6, <1>7, <1>8, <2>1 DEF TextsIn, q, u
<1>10. IsText(c)'
  BY DEF IsText
<1> QED
  BY <1>9, <1>10 DEF CellsIn

(* A cell is added to the column in turn, whichever way.                   *)
LEMMA CellAdded ==
  ASSUME WrittenInv, stage = "stored", Reading, ri <= Len(image), Advance,
         UNCHANGED <<columns, image>>, nulls \subseteq nulls',
         DOMAIN pool' = Columns, DOMAIN offs' = Columns,
         \A c \in Columns : c # ci => pool'[c] = pool[c] /\ offs'[c] = offs[c],
         \A c \in Columns :
           /\ c = ci /\ CellsIn(c)
           /\ RowsIn(c) = ri - 1 /\ RowsIn(c)' = ri
           => CellsIn(c)'
  PROVE  Reading'
<1>1. columns \in Schemas /\ Len(image) \in Nat
  BY ImageShape DEF WrittenInv, PackInv, PackTyped
<1>2. /\ ReadPlace' /\ ci \in Columns /\ RowsIn(ci) = ri - 1
      /\ \A c \in Columns : RowsIn(c)' = IF c = ci THEN ri ELSE RowsIn(c)
  BY <1>1, OneCell DEF Reading
<1>3. ASSUME NEW c \in Columns PROVE CellsIn(c)'
  <2>1. CellsIn(c)
    BY DEF Reading
  <2>2. CASE c = ci
    BY <1>2, <2>1, <2>2
  <2>3. CASE c # ci
    BY <1>2, <2>1, <2>3, OtherCells
  <2> QED
    BY <2>2, <2>3
<1>4. Columns' = Columns
  BY DEF Columns
<1> QED
  BY <1>2, <1>3, <1>4 DEF Reading

(* A value that is NULL is noted, and a cell without a meaning kept.       *)
LEMMA NullReceived ==
  ASSUME WrittenInv, stage = "stored", Reading, StoreNull
  PROVE  Reading'
<1>1. /\ ri <= Len(image) /\ UNCHANGED <<columns, image>> /\ Advance
      /\ nulls' = nulls \cup {<<ri, ci>>}
  BY DEF StoreNull, Receiving, insert
<1>2. columns \in Schemas /\ Len(image) \in Nat
  BY ImageShape DEF WrittenInv, PackInv, PackTyped
<1>3. ci \in Columns /\ ri \in Nat \ {0}
  BY <1>1, <1>2, OneCell DEF Reading, ReadPlace
<1>4. DOMAIN pool = Columns /\ DOMAIN offs = Columns
  BY DEF Reading
<1>5. IF IsText(ci)
      THEN offs' = [offs EXCEPT ![ci] = Append(@, Last(@))] /\ pool' = pool
      ELSE /\ pool' = [pool EXCEPT ![ci] =
                 Append(@, [i \in 1 .. Width(columns[ci].type) |-> 0])]
           /\ offs' = offs
  BY DEF StoreNull, IsText
<1>6. ASSUME NEW c \in Columns, c = ci, CellsIn(c), RowsIn(c) = ri - 1,
             RowsIn(c)' = ri
      PROVE  CellsIn(c)'
  <2>1. PICK n \in Nat \ {0} : n = ri
    BY <1>3
  <2>2. RowsIn(c) = n - 1 /\ RowsIn(c)' = n
    BY <1>6, <2>1
  <2>3. isNull(n, c)' /\ nulls \subseteq nulls'
    BY <1>1, <1>6, <2>1 DEF isNull
  <2>4. CASE IsText(c)
    <3> DEFINE x == <<>>
    <3>1. x \in Seq(Chars) /\ Len(x) = 0
      OBVIOUS
    <3>2. /\ pool[c] \in Seq(Chars) /\ offs[c] \in Seq(Nat)
          /\ Len(offs[c]) = n /\ offs[c][n] = Len(pool[c])
      <4>1. TextsIn(c) /\ RowsIn(c) + 1 = n
        BY <1>6, <2>2, <2>4 DEF CellsIn
      <4> QED
        BY <4>1 DEF TextsIn
    <3>3. pool'[c] = pool[c] \o x
      BY <1>5, <1>6, <2>4, <3>2
    <3>4. Len(pool[c]) + Len(x) = Len(pool[c])
      BY <3>1, <3>2
    <3>5. offs'[c] = Append(offs[c], Last(offs[c]))
      BY <1>4, <1>5, <1>6, <2>4
    <3>6. Last(offs[c]) = Len(pool[c])
      BY <3>2 DEF Last
    <3>7. offs'[c] = Append(offs[c], Len(pool[c]) + Len(x))
      BY <3>4, <3>5, <3>6
    <3> HIDE DEF x
    <3> QED
      BY <1>1, <1>6, <2>2, <2>3, <2>4, <3>1, <3>3, <3>7, TextAdded
  <2>5. CASE ~IsText(c)
    <3> DEFINE x == [i \in 1 .. Width(columns[c].type) |-> 0]
    <3>1. x \in Seq(Int)
      <4>1. Width(columns[c].type) \in Nat
        BY <1>2, <2>5, ColumnFacts DEF Width
      <4> QED
        BY <4>1
    <3>2. pool'[c] = Append(pool[c], x)
      BY <1>4, <1>5, <1>6, <2>5
    <3> HIDE DEF x
    <3> QED
      BY <1>1, <1>6, <2>2, <2>3, <2>5, <3>1, <3>2, NumberAdded
  <2> QED
    BY <2>4, <2>5
<1>7. /\ DOMAIN pool' = Columns /\ DOMAIN offs' = Columns
      /\ \A c \in Columns : c # ci => pool'[c] = pool[c] /\ offs'[c] = offs[c]
  BY <1>4, <1>5
<1> QED
  BY <1>1, <1>6, <1>7, CellAdded

(* A text is appended to the characters of its column.                     *)
LEMMA StringReceived ==
  ASSUME WrittenInv, stage = "stored", Reading, StoreString
  PROVE  Reading'
<1> DEFINE s(c) == Encoded("STRING", Held(ri, c))
<1>1. /\ ri <= Len(image) /\ UNCHANGED <<columns, image, nulls>> /\ Advance
      /\ IsText(ci)
      /\ pool' = [pool EXCEPT ![ci] = @ \o s(ci)]
      /\ offs' = [offs EXCEPT ![ci] = Append(@, Len(pool[ci]) + Len(s(ci)))]
  BY DEF StoreString, Receiving, insert, IsText
<1>2. /\ columns \in Schemas /\ Len(image) \in Nat
      /\ DOMAIN image = 1 .. Len(image)
  BY ImageShape DEF WrittenInv, PackInv, PackTyped
<1>3. ci \in Columns /\ ri \in Nat \ {0} /\ ri \in DOMAIN image
  <2>1. ci \in Columns /\ ri \in Nat \ {0}
    BY <1>1, <1>2, OneCell DEF Reading, ReadPlace
  <2> QED
    BY <1>1, <1>2, <2>1
<1>4. DOMAIN pool = Columns /\ DOMAIN offs = Columns
  BY DEF Reading
<1>5. \A v : Encoded("STRING", v) = v
  BY DEF Encoded
<1>6. ASSUME NEW c \in Columns, c = ci, CellsIn(c), RowsIn(c) = ri - 1,
             RowsIn(c)' = ri
      PROVE  CellsIn(c)'
  <2>1. PICK n \in Nat \ {0} : n = ri
    BY <1>3
  <2>2. RowsIn(c) = n - 1 /\ RowsIn(c)' = n
    BY <1>6, <2>1
  <2>3. n \in DOMAIN image /\ IsText(c)
    BY <1>1, <1>3, <1>6, <2>1
  <2> DEFINE x == Held(ri, c)
  <2>4. x = Trimmed(image[n][c]) /\ x \in Seq(Chars)
    <3>1. Held(n, c) = Trimmed(image[n][c]) /\ Held(n, c) \in Seq(Chars)
      BY <2>3, SentText
    <3> QED
      BY <2>1, <3>1
  <2>5. s(c) = x
    BY <1>5
  <2> HIDE DEF x, s
  <2>6. /\ pool'[c] = pool[c] \o x
        /\ offs'[c] = Append(offs[c], Len(pool[c]) + Len(x))
    BY <1>1, <1>4, <1>6, <2>5
  <2>7. PICK y \in Seq(Chars) : y = x
    BY <2>4
  <2>8. /\ pool'[c] = pool[c] \o y /\ y = Trimmed(image[n][c])
        /\ offs'[c] = Append(offs[c], Len(pool[c]) + Len(y))
    BY <2>4, <2>6, <2>7
  <2>9. nulls \subseteq nulls'
    BY <1>1
  <2> QED
    BY <1>1, <1>6, <2>2, <2>3, <2>8, <2>9, TextAdded
<1> HIDE DEF s
<1>7. /\ DOMAIN pool' = Columns /\ DOMAIN offs' = Columns
      /\ \A c \in Columns : c # ci => pool'[c] = pool[c] /\ offs'[c] = offs[c]
  BY <1>1, <1>4
<1>8. nulls \subseteq nulls'
  BY <1>1
<1> QED
  BY <1>1, <1>6, <1>7, <1>8, CellAdded

(* A number is appended to the cells of its column.                        *)
LEMMA NumberReceived ==
  ASSUME WrittenInv, stage = "stored", Reading, NEW tag \in DOMAIN Bytes,
         StoreNumber(tag)
  PROVE  Reading'
<1> DEFINE s(c) == Cell(c, Parsed(tag, Encoded(tag, Held(ri, c))))
<1>1. /\ ri <= Len(image) /\ UNCHANGED <<columns, image, nulls, offs>>
      /\ Advance /\ ~IsText(ci) /\ tag \in Tags(columns[ci].type)
      /\ pool' = [pool EXCEPT ![ci] = Append(@, s(ci))]
  BY DEF StoreNumber, Receiving, insert, IsText
<1>2. /\ columns \in Schemas /\ Len(image) \in Nat
      /\ DOMAIN image = 1 .. Len(image)
  BY ImageShape DEF WrittenInv, PackInv, PackTyped
<1>3. ci \in Columns /\ ri \in Nat \ {0} /\ ri \in DOMAIN image
  <2>1. ci \in Columns /\ ri \in Nat \ {0}
    BY <1>1, <1>2, OneCell DEF Reading, ReadPlace
  <2> QED
    BY <1>1, <1>2, <2>1
<1>4. DOMAIN pool = Columns /\ DOMAIN offs = Columns
  BY DEF Reading
<1>6. ASSUME NEW c \in Columns, c = ci, CellsIn(c), RowsIn(c) = ri - 1,
             RowsIn(c)' = ri
      PROVE  CellsIn(c)'
  <2>1. PICK n \in Nat \ {0} : n = ri
    BY <1>3
  <2>2. RowsIn(c) = n - 1 /\ RowsIn(c)' = n
    BY <1>6, <2>1
  <2>3. n \in DOMAIN image /\ ~IsText(c) /\ tag \in Tags(columns[c].type)
    BY <1>1, <1>3, <1>6, <2>1
  <2> DEFINE x == Cell(c, Parsed(tag, Encoded(tag, Held(n, c))))
  <2>4. /\ x \in Seq(Int)
        /\ SameNumber(x, FromHost(image[n][c]), columns[c].type)
    BY <2>3, SentNumber
  <2>5. s(c) = x
    BY <2>1
  <2> HIDE DEF x, s
  <2>6. pool'[c] = Append(pool[c], x)
    BY <1>1, <1>4, <1>6, <2>5
  <2>7. PICK y \in Seq(Int) : y = x
    BY <2>4
  <2>8. /\ pool'[c] = Append(pool[c], y)
        /\ SameNumber(y, FromHost(image[n][c]), columns[c].type)
    BY <2>4, <2>6, <2>7
  <2>9. nulls \subseteq nulls'
    BY <1>1
  <2> QED
    BY <1>1, <1>6, <2>2, <2>3, <2>8, <2>9, NumberAdded
<1> HIDE DEF s
<1>7. /\ DOMAIN pool' = Columns /\ DOMAIN offs' = Columns
      /\ \A c \in Columns : c # ci => pool'[c] = pool[c] /\ offs'[c] = offs[c]
  BY <1>1, <1>4
<1>8. nulls \subseteq nulls'
  BY <1>1
<1> QED
  BY <1>1, <1>6, <1>7, <1>8, CellAdded

(* Nothing is received yet.                                                *)
LEMMA ReadingStarts ==
  ASSUME WrittenInv, ReturnTagged
  PROVE  Reading'
<1>1. /\ stage = "stored" /\ UNCHANGED <<columns, image>>
      /\ offs' = Starts /\ pool' = NoCells /\ ri' = 1 /\ ci' = 1
  BY DEF ReturnTagged, insert
<1>2. columns \in Schemas /\ Len(image) \in Nat
  BY <1>1, ImageShape DEF WrittenInv, PackInv, PackTyped
<1>3. 1 \in Columns
  BY <1>2, TextAssumption DEF Columns
<1>4. Len(columns) \in Nat \ {0} /\ Columns = 1 .. Len(columns)
  BY <1>2, <1>3, ColumnFacts
<1>5. Columns' = Columns /\ \A c : IsText(c)' = IsText(c)
  BY <1>1 DEF Columns, IsText
<1>6. ReadPlace'
  <2>1. ri' \in 1 .. Len(image) + 1 /\ ci' \in 1 .. Len(columns)
    BY <1>1, <1>2, <1>4
  <2> QED
    BY <1>1, <2>1 DEF ReadPlace
<1>7. DOMAIN pool' = Columns /\ DOMAIN offs' = Columns
  BY <1>1 DEF NoCells, Starts
<1>8. ASSUME NEW c \in Columns PROVE CellsIn(c)'
  <2>1. c \in Nat \ {0}
    BY <1>4
  <2>2. RowsIn(c)' = 0
    <3>1. ~(c < 1) /\ 1 - 1 = 0
      BY <2>1
    <3> QED
      BY <1>1, <3>1 DEF RowsIn
  <2>3. pool'[c] = <<>> /\ offs'[c] = <<0>>
    BY <1>1 DEF NoCells, Starts
  <2>4. TextsIn(c)'
    <3>1. <<>> \in Seq(Chars) /\ <<0>> \in Seq(Nat) /\ Len(<<0>>) = 0 + 1
          /\ <<0>>[0 + 1] = Len(<<>>) /\ 1 .. 0 = {}
      OBVIOUS
    <3> QED
      BY <2>2, <2>3, <3>1 DEF TextsIn
  <2>5. NumbersIn(c)'
    <3>1. <<>> \in Seq(Seq(Int)) /\ Len(<<>>) = 0 /\ 1 .. 0 = {}
      OBVIOUS
    <3> QED
      BY <2>2, <2>3, <3>1 DEF NumbersIn
  <2> QED
    BY <2>4, <2>5 DEF CellsIn
<1> QED
  BY <1>5, <1>6, <1>7, <1>8 DEF Reading

(* Every step.                                                             *)
LEMMA ReceivedStep ==
  ASSUME WrittenInv, Received, [RowNext]_rowVars
  PROVE  Received'
<1>1. layout = "tagged" => stage = "stored"
  BY DEF WrittenInv, KeptInv
<1>2. CASE (WriteText \/ Pack) /\ UNCHANGED <<image, result>>
  <2>1. stage \in {"write", "pack"} /\ layout' = layout
    BY <1>2 DEF WriteText, WriteGroup, WriteValue, EndOfText, Writing, Pack,
                PackValue, EndRow, EndText, Packing, result
  <2> QED
    BY <1>1, <2>1 DEF Received
<1>3. CASE Store
  <2>1. stage = "packed" /\ layout' = layout
    BY <1>3 DEF Store, result
  <2> QED
    BY <1>1, <2>1 DEF Received
<1>4. CASE ReturnRaw
  BY <1>4 DEF ReturnRaw, Received
<1>5. CASE ReturnTagged
  BY <1>5, ReadingStarts DEF Received
<1>6. CASE StoreNull
  BY <1>1, <1>6, NullReceived DEF Received, StoreNull, Receiving
<1>7. CASE StoreString
  BY <1>1, <1>7, StringReceived DEF Received, StoreString, Receiving
<1>8. ASSUME NEW tag \in DOMAIN Bytes, StoreNumber(tag) PROVE Received'
  BY <1>1, <1>8, NumberReceived DEF Received, StoreNumber, Receiving
<1>9. CASE Malformed
  BY <1>9 DEF Malformed, Received
<1>10. CASE UNCHANGED rowVars
  <2>1. UNCHANGED <<columns, image, layout, ri, ci, pool, offs, nulls, error>>
    BY <1>10 DEF rowVars, insert, result
  <2>2. Columns' = Columns /\ ReadPlace' = ReadPlace
    BY <2>1 DEF Columns, ReadPlace
  <2>3. \A c : CellsIn(c)' = CellsIn(c)
    BY <2>1 DEF CellsIn, IsText, TextsIn, NumbersIn, RowsIn, isNull,
                stringValue
  <2> QED
    BY <2>1, <2>2, <2>3 DEF Received, Reading
<1> QED
  BY <1>2, <1>3, <1>4, <1>5, <1>6, <1>7, <1>8, <1>9, <1>10
     DEF RowNext, StoreValue

-----------------------------------------------------------------------------
(* What the program reads is what is stored. *)

(* rawSlotValue(), type by type.                                           *)
LEMMA RawIs ==
  ASSUME NEW r, NEW c
  PROVE  LET t == columns[c].type
             n == FromHost(image[r][c])
         IN  /\ t \in Strings => RawValue(r, c) = Str(Trimmed(image[r][c]))
             /\ t = "UBIGINT" => RawValue(r, c) = UInt64(n)
             /\ t \in Unsigned \ {"UBIGINT"} => RawValue(r, c) = Int64(n)
             /\ t = "BOOL" => RawValue(r, c) = Bool(n # 0)
             /\ t \in Signed => RawValue(r, c) = Int64(ToSigned(n, Width(t)))
<1> DEFINE t == columns[c].type
           n == FromHost(image[r][c])
           x == Str(Unpadded(image[r][c]))
           y == Int64(ToSigned(n, Width(t)))
           z == Bool(n # 0)
           u == UInt64(n)
           i == Int64(n)
<1>1. RawValue(r, c) = CASE t \in Strings -> x
                         [] t = "UBIGINT" -> u
                         [] t \in Unsigned \ {"UBIGINT"} -> i
                         [] t = "BOOL" -> z
                         [] t \in Signed -> y
  BY Zenon DEF RawValue
<1>2. x = Str(Trimmed(image[r][c]))
  BY DEF Unpadded
<1> HIDE DEF t, n, x, y, z, u, i
<1>3. t \in Strings => RawValue(r, c) = x
  BY <1>1 DEF Strings, Unsigned, Signed
<1>4. t = "UBIGINT" => RawValue(r, c) = u
  BY <1>1 DEF Strings, Unsigned, Signed
<1>5. t \in Unsigned \ {"UBIGINT"} => RawValue(r, c) = i
  BY <1>1 DEF Strings, Unsigned, Signed
<1>6. t = "BOOL" => RawValue(r, c) = z
  BY <1>1 DEF Strings, Unsigned, Signed
<1>7. t \in Signed => RawValue(r, c) = y
  BY <1>1 DEF Strings, Unsigned, Signed
<1> QED
  BY <1>2, <1>3, <1>4, <1>5, <1>6, <1>7 DEF t, n, y, z, u, i

(* get(), kind by kind.                                                    *)
LEMMA TaggedIs ==
  ASSUME NEW r, NEW c, ~isNull(r, c)
  PROVE  LET t == columns[c].type
             n == FromHost(pool[c][r])
         IN  /\ Rep(t) = "string" => TaggedValue(r, c) = Str(stringValue(r, c))
             /\ Rep(t) = "int" =>
                  TaggedValue(r, c) = Int64(ToSigned(n, Width(t)))
             /\ Rep(t) = "uint" /\ t = "UBIGINT" =>
                  TaggedValue(r, c) = UInt64(n)
             /\ Rep(t) = "uint" /\ t # "UBIGINT" =>
                  TaggedValue(r, c) = Int64(n)
             /\ Rep(t) = "bool" => TaggedValue(r, c) = Bool(n # 0)
<1> DEFINE t == columns[c].type
           k == Rep(t)
           n == FromHost(pool[c][r])
           x == Str(stringValue(r, c))
           y == Int64(ToSigned(n, Width(t)))
           z == Bool(n # 0)
           u == UInt64(n)
           i == Int64(n)
           b == isNull(r, c)
<1>1. TaggedValue(r, c) = CASE b -> Null
                            [] ~b /\ k = "string" -> x
                            [] ~b /\ k = "int" -> y
                            [] ~b /\ k = "uint" ->
                                 IF t = "UBIGINT" THEN u ELSE i
                            [] ~b /\ k = "bool" -> z
  BY Zenon DEF TaggedValue
<1>2. ~b
  OBVIOUS
<1> HIDE DEF t, k, n, x, y, z, u, i, b
<1>3. k = "string" => TaggedValue(r, c) = x
  BY <1>1, <1>2
<1>4. k = "int" => TaggedValue(r, c) = y
  BY <1>1, <1>2
<1>5. k = "uint" => TaggedValue(r, c) = IF t = "UBIGINT" THEN u ELSE i
  BY <1>1, <1>2
<1>6. k = "bool" => TaggedValue(r, c) = z
  BY <1>1, <1>2
<1> QED
  BY <1>3, <1>4, <1>5, <1>6 DEF t, k, n, x, y, z, u, i

(* A tagged answer that is received whole has every cell.                  *)
LEMMA AllReceived ==
  ASSUME WrittenInv, Received, Complete, layout # "raw", NEW c \in Columns
  PROVE  /\ stage = "stored" /\ CellsIn(c) /\ RowsIn(c) = Len(image)
         /\ DOMAIN image = 1 .. RowsIn(c)
<1>1. layout = "tagged" /\ ~error /\ ri > Len(image)
  BY DEF Complete
<1>2. stage = "stored" /\ Reading
  BY <1>1 DEF WrittenInv, KeptInv, Received
<1>3. /\ columns \in Schemas /\ Len(image) \in Nat
      /\ DOMAIN image = 1 .. Len(image)
  BY <1>2, ImageShape DEF WrittenInv, PackInv, PackTyped
<1>4. ri = Len(image) + 1 /\ ci = 1
  BY <1>1, <1>2, <1>3 DEF Reading, ReadPlace
<1>5. c \in Nat \ {0}
  BY <1>3, ColumnFacts
<1>6. RowsIn(c) = Len(image)
  <2>1. ~(c < ci)
    BY <1>4, <1>5
  <2>2. RowsIn(c) = ri - 1
    BY <2>1 DEF RowsIn
  <2> QED
    BY <1>3, <1>4, <2>2
<1> QED
  BY <1>2, <1>3, <1>6 DEF Reading

(* Both layouts show what is stored.                                       *)
LEMMA TaggedAsRaw ==
  ASSUME WrittenInv, Received, Complete, layout # "raw",
         NEW r \in DOMAIN image, NEW c \in Columns, ~isNull(r, c)
  PROVE  /\ TaggedValue(r, c) = RawValue(r, c)
         /\ Rep(columns[c].type) \in {"int", "uint"} =>
              Len(pool[c][r]) = Width(columns[c].type)
<1>1. /\ stage = "stored" /\ CellsIn(c) /\ r \in 1 .. RowsIn(c)
  BY AllReceived
<1> DEFINE t == columns[c].type
           n == FromHost(image[r][c])
           m == FromHost(pool[c][r])
<1>2. CASE IsText(c)
  <2>1. t \in Strings /\ Rep(t) = "string"
    BY <1>1, <1>2, ImageShape, ColumnFacts DEF IsText
  <2>2. stringValue(r, c) = Trimmed(image[r][c])
    BY <1>1, <1>2 DEF CellsIn, TextsIn
  <2> QED
    BY <2>1, <2>2, RawIs, TaggedIs
<1>3. CASE ~IsText(c)
  <2>1. SameNumber(pool[c][r], n, t)
    BY <1>1, <1>3 DEF CellsIn, NumbersIn
  <2>2. t \in Unsigned \cup Signed \cup {"BOOL"}
    BY <1>1, <1>3, StoredNumber, Reps
  <2>3. CASE t \in Unsigned
    <3>1. Rep(t) = "uint"
      BY <2>3, Reps
    <3>2. m = n /\ Len(pool[c][r]) = Width(t)
      BY <2>1, <3>1 DEF SameNumber
    <3>3. CASE t = "UBIGINT"
      <4>1. RawValue(r, c) = UInt64(n) /\ TaggedValue(r, c) = UInt64(m)
        BY <3>1, <3>3, RawIs, TaggedIs
      <4> QED
        BY <3>2, <4>1
    <3>4. CASE t # "UBIGINT"
      <4>1. RawValue(r, c) = Int64(n) /\ TaggedValue(r, c) = Int64(m)
        BY <2>3, <3>1, <3>4, RawIs, TaggedIs
      <4> QED
        BY <3>2, <4>1
    <3> QED
      BY <3>3, <3>4
  <2>4. CASE t \in Signed
    <3>1. Rep(t) = "int"
      BY <2>4, Reps
    <3>2. m = n /\ Len(pool[c][r]) = Width(t)
      BY <2>1, <3>1 DEF SameNumber
    <3>3. /\ RawValue(r, c) = Int64(ToSigned(n, Width(t)))
          /\ TaggedValue(r, c) = Int64(ToSigned(m, Width(t)))
      BY <2>4, <3>1, RawIs, TaggedIs
    <3> QED
      BY <3>2, <3>3
  <2>5. CASE t = "BOOL"
    <3>1. Rep(t) = "bool"
      BY <2>5, Reps
    <3>2. m # 0 <=> n # 0
      BY <2>1, <3>1 DEF SameNumber
    <3>3. RawValue(r, c) = Bool(n # 0) /\ TaggedValue(r, c) = Bool(m # 0)
      BY <2>5, <3>1, RawIs, TaggedIs
    <3> HIDE DEF n, m
    <3>4. Bool(n # 0) = Bool(m # 0)
      BY <3>2 DEF Bool
    <3> QED
      BY <3>1, <3>3, <3>4
  <2> QED
    BY <2>2, <2>3, <2>4, <2>5
<1> QED
  BY <1>2, <1>3

(* So the layouts agree.                                                    *)
LEMMA ShownAlike == ASSUME WrittenInv, Received PROVE LayoutsAgree
<1> SUFFICES ASSUME Complete, NEW r \in DOMAIN image, NEW c \in Columns
             PROVE
    /\ ~isNull(r, c) => get(r, c) = RawValue(r, c)
    /\ Rep(columns[c].type) \in {"int", "uint"} /\ ~isNull(r, c) =>
         get(r, c)[2] = LET n == FromHost(Column(c)[r])
                        IN  IF Rep(columns[c].type) = "int"
                            THEN ToSigned(n, Len(Column(c)[r])) ELSE n
  BY DEF LayoutsAgree
<1> DEFINE t == columns[c].type
           n == FromHost(image[r][c])
<1>1. stage = "stored"
  BY DEF Complete, WrittenInv, KeptInv
<1>2. ~isNull(r, c) => get(r, c) = RawValue(r, c)
  BY TaggedAsRaw DEF get
<1>3. ASSUME Rep(t) \in {"int", "uint"}, ~isNull(r, c)
      PROVE  get(r, c)[2] = IF Rep(t) = "int"
                            THEN ToSigned(FromHost(Column(c)[r]),
                                          Len(Column(c)[r]))
                            ELSE FromHost(Column(c)[r])
  <2>1. ~IsText(c)
    BY <1>3 DEF IsText
  <2>2. t \in Unsigned \cup Signed \cup {"BOOL"} /\ Len(image[r][c]) = Width(t)
    BY <1>1, <2>1, StoredNumber, Reps DEF Width
  <2>3. FromHost(Column(c)[r]) = n /\ Len(Column(c)[r]) = Width(t)
    <3>1. CASE layout = "raw"
      <4>1. Column(c)[r] = image[r][c]
        BY <2>1, <3>1 DEF Column, RawColumn, IsText
      <4> QED
        BY <2>2, <4>1
    <3>2. CASE layout # "raw"
      <4>1. Column(c)[r] = pool[c][r]
        BY <3>2 DEF Column
      <4>2. Len(pool[c][r]) = Width(t)
        BY <1>3, <3>2, TaggedAsRaw
      <4>3. CellsIn(c) /\ r \in 1 .. RowsIn(c)
        BY <3>2, AllReceived
      <4>4. SameNumber(pool[c][r], n, t)
        BY <1>3, <2>1, <4>3 DEF CellsIn, NumbersIn
      <4> QED
        BY <1>3, <4>1, <4>2, <4>4 DEF SameNumber
    <3> QED
      BY <3>1, <3>2
  <2>4. RawValue(r, c)[2] = IF Rep(t) = "int" THEN ToSigned(n, Width(t)) ELSE n
    <3>1. CASE t \in Signed
      <4>1. RawValue(r, c) = Int64(ToSigned(n, Width(t))) /\ Rep(t) = "int"
        BY <3>1, RawIs, Reps
      <4> HIDE DEF n, t
      <4> QED
        BY <4>1 DEF Int64
    <3>2. CASE t \in Unsigned
      <4>1. /\ RawValue(r, c) = UInt64(n) \/ RawValue(r, c) = Int64(n)
            /\ Rep(t) = "uint"
        BY <3>2, RawIs, Reps
      <4> HIDE DEF n, t
      <4> QED
        BY <4>1 DEF Int64, UInt64
    <3>3. t # "BOOL"
      BY <1>3, Reps
    <3> QED
      BY <2>2, <3>1, <3>2, <3>3
  <2> QED
    BY <1>2, <1>3, <2>3, <2>4
<1> QED
  BY <1>2, <1>3

(* What a value should come back as, type by type.                         *)
LEMMA MeansIs ==
  ASSUME NEW t, NEW b, NEW s
  PROVE  /\ t \in Strings => Means(t, b, s) = Str(CutTo(s, b))
         /\ t = "BOOL" => Means(t, b, s) = Bool(ValueOf(s) # 0)
         /\ t = "UBIGINT" =>
              Means(t, b, s) = UInt64(Clamp(ValueOf(s), 0, Highest(t)))
         /\ t \in (Unsigned \ {"UBIGINT"}) \cup Signed =>
              Means(t, b, s)
                = Int64(Clamp(ValueOf(s), Lowest(t), Highest(t)))
<1> DEFINE x == Str(SubSeq(s, 1, IF Len(s) < b THEN Len(s) ELSE b))
           z == Bool(ValueOf(s) # 0)
           u == UInt64(Clamp(ValueOf(s), 0, Highest(t)))
           i == Int64(Clamp(ValueOf(s), Lowest(t), Highest(t)))
<1>1. Means(t, b, s) = CASE t \in Strings -> x
                         [] t = "BOOL" -> z
                         [] t = "UBIGINT" -> u
                         [] OTHER -> i
  BY Zenon DEF Means
<1>2. x = Str(CutTo(s, b))
  BY DEF CutTo
<1> HIDE DEF x, z, u, i
<1>3. t \in Strings => Means(t, b, s) = x
  BY <1>1 DEF Strings
<1>4. t = "BOOL" => Means(t, b, s) = z
  BY <1>1 DEF Strings
<1>5. t = "UBIGINT" => Means(t, b, s) = u
  BY <1>1 DEF Strings
<1>6. t \in (Unsigned \ {"UBIGINT"}) \cup Signed => Means(t, b, s) = i
  BY <1>1 DEF Strings, Unsigned, Signed
<1> QED
  BY <1>2, <1>3, <1>4, <1>5, <1>6 DEF z, u, i

(* A number that fits its column is stored as what was written, unless it  *)
(* is a timestamp beyond the first column.                                 *)
LEMMA NumberBack ==
  ASSUME WrittenInv, stage = "stored", NEW r \in DOMAIN image,
         NEW c \in Columns, ~IsText(c), columns[c].type = "TIMESTAMP" => c = 1,
         IsNumber(columns[c].type, ValueIn(r, c)),
         Claimed(columns[c].type, ValueOf(ValueIn(r, c)))
  PROVE  RawValue(r, c)
           = Means(columns[c].type, columns[c].bytes, ValueIn(r, c))
<1> DEFINE t == columns[c].type
           b == columns[c].bytes
           s == ValueIn(r, c)
           w == Bytes[t]
           n == FromHost(image[r][c])
           p == Power(Byte, w)
           y == ValueOf(s)
<1>1. /\ s \in Seq(Chars) /\ n = Conversion(c, s) % p
      /\ t \in DOMAIN Bytes /\ Width(t) = w
  BY ImageOf, StoredNumber DEF Width
<1>2. t \in Unsigned \cup Signed \cup {"BOOL"}
  BY <1>1, Reps
<1>3. c = 1 => t = "TIMESTAMP"
  BY ImageShape, ColumnFacts
<1>11. t = "TIMESTAMP" => c = 1
  OBVIOUS
<1> HIDE DEF s, n, p, w
<1>4. IsNumber(t, s) /\ Claimed(t, y)
  BY DEF s
<1> HIDE DEF t, y, b
<1>5. /\ t \in Unsigned => fastAtou64(s) % p = Clamp(y, 0, Highest(t))
      /\ t \in Signed =>
           ToSigned(fastAtoi64(s) % p, w) = Clamp(y, Lowest(t), Highest(t))
      /\ t = "BOOL" => (fastAtoi64(s) % p # 0 <=> y # 0)
  BY <1>1, <1>4, NumberKept DEF p, w, y
<1>6. /\ t \in Unsigned => n = fastAtou64(s) % p
      /\ t \in Signed \cup {"BOOL"} => n = fastAtoi64(s) % p
  <2>1. CASE c = 1
    <3>1. t = "TIMESTAMP" /\ Conversion(c, s) = fastTsParse(s)
      BY <1>3, <2>1 DEF Conversion
    <3>2. fastTsParse(s) = fastAtoi64(s)
      BY <1>1, <1>4, <3>1, Converted
    <3>3. t \notin Unsigned
      BY <3>1 DEF Unsigned
    <3> QED
      BY <1>1, <3>1, <3>2, <3>3
  <2>2. CASE c # 1
    <3>1. Conversion(c, s) = IF t \in Unsigned THEN fastAtou64(s)
                             ELSE fastAtoi64(s)
      BY <1>11, <2>2 DEF Conversion, t
    <3>2. t \in Signed \cup {"BOOL"} => t \notin Unsigned
      BY DEF Signed, Unsigned
    <3> QED
      BY <1>1, <3>1, <3>2
  <2> QED
    BY <2>1, <2>2
<1>7. CASE t = "UBIGINT"
  <2>1. t \in Unsigned
    BY <1>7 DEF Unsigned
  <2>2. n = Clamp(y, 0, Highest(t))
    BY <1>5, <1>6, <2>1
  <2>3. RawValue(r, c) = UInt64(n)
    BY <1>7, RawIs DEF t, n
  <2>4. Means(t, b, s) = UInt64(Clamp(y, 0, Highest(t)))
    BY <1>7, MeansIs DEF y
  <2> QED
    BY <2>2, <2>3, <2>4 DEF t, b, s
<1>8. CASE t \in Unsigned \ {"UBIGINT"}
  <2>1. n = Clamp(y, 0, Highest(t)) /\ Lowest(t) = 0
    BY <1>5, <1>6, <1>8 DEF Lowest
  <2>2. RawValue(r, c) = Int64(n)
    BY <1>8, RawIs DEF t, n
  <2>3. Means(t, b, s) = Int64(Clamp(y, Lowest(t), Highest(t)))
    BY <1>8, MeansIs DEF y
  <2> QED
    BY <2>1, <2>2, <2>3 DEF t, b, s
<1>9. CASE t \in Signed
  <2>1. ToSigned(n, w) = Clamp(y, Lowest(t), Highest(t))
    BY <1>5, <1>6, <1>9
  <2>2. RawValue(r, c) = Int64(ToSigned(n, Width(t)))
    BY <1>9, RawIs DEF t, n
  <2>3. Means(t, b, s) = Int64(Clamp(y, Lowest(t), Highest(t)))
    BY <1>9, MeansIs DEF y
  <2> QED
    BY <1>1, <2>1, <2>2, <2>3 DEF t, b, s
<1>10. CASE t = "BOOL"
  <2>1. n # 0 <=> y # 0
    BY <1>5, <1>6, <1>10
  <2>2. RawValue(r, c) = Bool(n # 0)
    BY <1>10, RawIs DEF t, n
  <2>3. Means(t, b, s) = Bool(y # 0)
    BY <1>10, MeansIs DEF y
  <2>4. Bool(n # 0) = Bool(y # 0)
    BY <2>1 DEF Bool
  <2> QED
    BY <2>2, <2>3, <2>4 DEF t, b, s
<1> QED
  BY <1>2, <1>7, <1>8, <1>9, <1>10

(* And so is a text, as far as it fits.                                    *)
LEMMA TextBack ==
  ASSUME WrittenInv, stage = "stored", NEW r \in DOMAIN image,
         NEW c \in Columns, IsText(c)
  PROVE  RawValue(r, c)
           = Means(columns[c].type, columns[c].bytes, ValueIn(r, c))
<1>1. columns[c].type \in Strings
  BY ImageShape, ColumnFacts
<1>2. Trimmed(image[r][c]) = CutTo(ValueIn(r, c), columns[c].bytes)
  BY SentText
<1>3. RawValue(r, c) = Str(Trimmed(image[r][c]))
  BY <1>1, RawIs
<1> QED
  BY <1>1, <1>2, <1>3, MeansIs

(* So what is read is what was written.                                     *)
LEMMA ReadAsWritten == ASSUME WrittenInv, Received PROVE ReadsBack
<1> SUFFICES ASSUME Complete, NEW r \in DOMAIN image, NEW c \in Columns,
                    text[r].vals[c].form # "mixed", ~isNull(r, c),
                    columns[c].type = "TIMESTAMP" => c = 1,
                    columns[c].type \notin Strings =>
                      /\ IsNumber(columns[c].type, Trim(text[r].vals[c].chars))
                      /\ Claimed(columns[c].type,
                                 ValueOf(Trim(text[r].vals[c].chars)))
             PROVE  get(r, c) = Means(columns[c].type, columns[c].bytes,
                                      Trim(text[r].vals[c].chars))
  BY Zenon DEF ReadsBack
<1>1. stage = "stored"
  BY DEF Complete, WrittenInv, KeptInv
<1>2. Trim(text[r].vals[c].chars) = ValueIn(r, c)
  BY DEF ValueIn, Span
<1>3. get(r, c) = RawValue(r, c)
  BY ShownAlike, Zenon DEF LayoutsAgree
<1>4. CASE IsText(c)
  BY <1>1, <1>2, <1>3, <1>4, TextBack
<1>5. CASE ~IsText(c)
  <2>1. columns[c].type \notin Strings
    BY <1>5, Reps DEF IsText
  <2> QED
    BY <1>1, <1>2, <1>3, <1>5, <2>1, NumberBack
<1> QED
  BY <1>4, <1>5

(* The rows are the text's values converted, the image is the rows, and    *)
(* what an answer has brought so far is the image, column by column.       *)
THEOREM ReadInvariant == RowSpec => [](WrittenInv /\ Received)
<1>1. RowInit => WrittenInv /\ Received
  BY WrittenInit DEF RowInit, Received
<1>2. WrittenInv /\ Received /\ [RowNext]_rowVars => (WrittenInv /\ Received)'
  BY WrittenStep, ReceivedStep
<1> QED
  BY <1>1, <1>2, PTL DEF RowSpec

(* Whatever is cut to its slot, whatever tag a number is sent under: the   *)
(* program reads the same from both layouts and from whole columns.        *)
THEOREM SameInBothLayouts == RowSpec => []LayoutsAgree
<1>1. WrittenInv /\ Received => LayoutsAgree
  BY ShownAlike
<1> QED
  BY <1>1, ReadInvariant, PTL

(* A value that fits its column comes back as it was written, through the  *)
(* scanner, the converters, the slots, the server and both layouts, unless *)
(* a quote stands within it or it is a timestamp beyond the first column.  *)
THEOREM WrittenIsRead == RowSpec => []ReadsBack
<1>1. WrittenInv /\ Received => ReadsBack
  BY ReadAsWritten
<1> QED
  BY <1>1, ReadInvariant, PTL
=============================================================================
