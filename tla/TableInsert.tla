---------------------------- MODULE TableInsert ----------------------------
(***************************************************************************)
(* Which table an INSERT reaches: the table metadata, uid and dbId caches  *)
(* of one EtDBClient (src/client/EtDBMeta.h, src/client/EtDBClient.cpp),   *)
(* the SQL statements it routes and one prepared statement (EtDBStmt),     *)
(* while this client or others create and drop tables.                     *)
(*                                                                         *)
(* A table is <<d, t>>; <<NoDb, t>> is a name written without a database.  *)
(* A TableMeta is represented by its uid, which determines the rest of it. *)
(* Every call is one step of one application thread.                       *)
(***************************************************************************)
EXTENDS Naturals

CONSTANTS
  Dbs,       (* the databases                                              *)
  Names,     (* table names                                                *)
  NoDb,      (* "": no database                                            *)
  Uids,      (* the uids the server can hand out                           *)
  Owner,     (* Owner[u]: the table that gets uid u when it is created     *)
  NoUid,     (* 0                                                          *)
  NodeOf,    (* NodeOf[d]: the dbId of database d                          *)
  MaxRows    (* bound on the rows of a batch                               *)

Tables  == Dbs \X Names
Written == (Dbs \cup {NoDb}) \X Names

ASSUME InsertAssumption ==
  /\ NoDb \notin Dbs /\ NoUid \notin Uids /\ Names # {}
  /\ Owner \in [Uids -> Tables]
  /\ NodeOf \in [Dbs -> Nat \ {0}]
  /\ MaxRows \in Nat

VARIABLES
  table,   (* the server's catalogue: the uid of each table, NoUid if none *)
  fresh,   (* the uids not handed out yet                                  *)
  db,      (* _db, the database selected                                   *)
  meta,    (* _metaCache: table -> uid; <<NoDb, t>> is the key ".t"        *)
  uids,    (* _tableUidCache: name as written -> uid                       *)
  dbIds,   (* _dbIdCache: the databases whose dbId is cached               *)
  stmt,    (* EtDBStmt                                                     *)
  last     (* the request of the latest call: what it named, where it went *)

caches == <<meta, uids, dbIds>>
server == <<table, fresh>>
vars   == <<server, caches, db, stmt, last>>

States == {"INIT", "PREPARED", "BINDING", "BATCHED"}

(* _state, the table named in prepare(), _tableUid, _targetdbId, whether   *)
(* these two are those of an earlier prepare(), and how many rows          *)
(* _batchData holds.                                                       *)
Statement(s, n, u, i, k, b) == [state |-> s, named |-> n, uid |-> u,
                                dbId |-> i, kept |-> k, batch |-> b]

(* kind, the table the request names, the dbId it is sent to, the table    *)
(* its rows land in, and whether the request was addressed without the     *)
(* database of its name: by a guess.                                       *)
Request(k, n, i, w, g) == [kind |-> k, named |-> n, dbId |-> i, into |-> w,
                           guess |-> g]

Nowhere   == {}
NoRequest == Request("none", CHOOSE w \in Written : TRUE, 1, Nowhere,
                     FALSE)
Empty   == [k \in {} |-> NoUid]

Init ==
  /\ table = [n \in Tables |-> NoUid] /\ fresh = Uids
  /\ db \in Dbs \cup {NoDb}
  /\ meta = Empty /\ uids = Empty /\ dbIds = {}
  /\ stmt = Statement("INIT", NoRequest.named, NoUid, 1, FALSE, 0)
  /\ last = NoRequest

Silent == last' = NoRequest

-----------------------------------------------------------------------------
(* The server (external). *)

Exists(n)    == n \in Tables /\ table[n] # NoUid
HasTables(d) == \E t \in Names : Exists(<<d, t>>)

(* CREATE TABLE and DROP TABLE, by whatever client. *)
Create(n) ==
  /\ table[n] = NoUid
  /\ \E u \in fresh :
       /\ Owner[u] = n
       /\ table' = [table EXCEPT ![n] = u] /\ fresh' = fresh \ {u}
  /\ Silent /\ UNCHANGED <<caches, db, stmt>>

Drop(n) ==
  /\ table[n] # NoUid
  /\ table' = [table EXCEPT ![n] = NoUid]
  /\ Silent /\ UNCHANGED <<fresh, caches, db, stmt>>

(* A SUBMIT stores rows by uid, on the dbnode that has the table.          *)
Accepts(i, u) == u \in Uids /\ table[Owner[u]] = u /\ NodeOf[Owner[u][1]] = i
Stored(i, u)  == IF Accepts(i, u) THEN {Owner[u]} ELSE Nowhere

-----------------------------------------------------------------------------
(* EtDBMetaCache and the uid cache *)

Put(cache, S, u) == [k \in DOMAIN cache \cup S |->
                       IF k \in S THEN u ELSE cache[k]]

(* parseMetaRsp() caches the table under no database first, then           *)
(* fetchTableMeta() under its own.                                         *)
SessionKeys(n) == {<<NoDb, n[2]>>, <<db, n[2]>>}                 \* mutant
MetaKeys(n)    == {<<NoDb, n[2]>>, n}

Fetched(n, u) ==
  /\ Exists(n) /\ u = table[n]
  /\ meta' = Put(meta, MetaKeys(n), u)

(* There is no such table, or the request fails. *)
NotFetched(n, u) == u = NoUid /\ UNCHANGED meta

ByName(n)   == <<NoDb, n[2]>>                                    \* mutant
CacheKey(n) == n

(* getTableMeta(): u is the table's uid, NoUid when it returns nullptr.    *)
GetTableMeta(n, u) ==
  \/ CacheKey(n) \in DOMAIN meta /\ u = meta[CacheKey(n)] /\ UNCHANGED meta
  \/ CacheKey(n) \notin DOMAIN meta /\ (Fetched(n, u) \/ NotFetched(n, u))

(* resolveTableUidFromServer() caches the uid under the bare name too.     *)
ResolveUid(n, u) ==
  \/ /\ Exists(n) /\ u = table[n]
     /\ uids' = Put(uids, {<<NoDb, n[2]>>, n}, u)
  \/ u = NoUid /\ UNCHANGED uids

LookupUid(w) == IF w \in DOMAIN uids THEN uids[w] ELSE NoUid

(* EtDBClient::fetchTableMeta() always asks the server, and                *)
(* invalidateMeta() forgets the entry of the name given.                   *)
Refresh(n) ==
  /\ \E u \in Uids \cup {NoUid} : Fetched(n, u) \/ NotFetched(n, u)
  /\ Silent /\ UNCHANGED <<server, uids, dbIds, db, stmt>>

Invalidate(w) ==
  /\ meta' = [k \in DOMAIN meta \ {w} |-> meta[k]]
  /\ Silent /\ UNCHANGED <<server, uids, dbIds, db, stmt>>

-----------------------------------------------------------------------------
(* SQL statements *)

(* The database a name refers to: its own, or else the one selected.       *)
Named(w) == IF w[1] = NoDb THEN <<db, w[2]>> ELSE w

(* EtDBClient::query(): the database of a statement is its table's prefix  *)
(* when extractTableDbPrefix() recognises it, and the one selected if not. *)
(* It only knows FROM, INTO ... in capitals (up).                          *)
Selected(w, up) == db                                            \* mutant
Target(w, up) == IF w[1] # NoDb /\ up THEN w[1] ELSE db

(* The dbId of database d: cached, asked of the server, or else 1, the     *)
(* default, which is not cached.                                           *)
Route(d, i) ==
  \/ d \in dbIds /\ i = NodeOf[d] /\ UNCHANGED dbIds
  \/ /\ d \notin dbIds /\ d \in Dbs /\ HasTables(d)
     /\ i = NodeOf[d] /\ dbIds' = dbIds \cup {d}
  \/ d \notin dbIds /\ i = 1 /\ UNCHANGED dbIds

DbIdRange == {1} \cup {NodeOf[d] : d \in Dbs}

Use(d) ==
  /\ db' = d
  /\ \E i \in DbIdRange : Route(db, i)
  /\ Silent /\ UNCHANGED <<server, meta, uids, stmt>>

Select(w, up) ==
  /\ \E i \in DbIdRange :
       /\ Route(Target(w, up), i)
       /\ last' = Request("select", Named(w), i, Nowhere, w[1] # NoDb /\ ~up)
  /\ UNCHANGED <<server, meta, uids, db, stmt>>

Submitted(n, i, u, g) == last' = Request("insert", n, i, Stored(i, u), g)
Rejected(n)           == last' = Request("rejected", n, 1, Nowhere, FALSE)

(* An INSERT goes to the dbnode of its table's metadata; without metadata  *)
(* the uid comes from the uid cache or from the server and the request     *)
(* goes where the statement was routed.                                    *)
Insert(w, up) ==
  /\ \E i \in DbIdRange, u, v \in Uids \cup {NoUid} :
       /\ Route(Target(w, up), i)
       /\ IF db = NoDb /\ w[1] = NoDb
          THEN Rejected(Named(w)) /\ UNCHANGED <<meta, uids>>
          ELSE /\ GetTableMeta(Named(w), u)
               /\ \/ /\ u # NoUid
                     /\ Submitted(Named(w), NodeOf[Owner[u][1]], u, FALSE)
                     /\ UNCHANGED uids
                  \/ /\ u = NoUid /\ LookupUid(w) # NoUid
                     /\ Submitted(Named(w), i, LookupUid(w), w[1] = NoDb)
                     /\ UNCHANGED uids
                  \/ /\ u = NoUid /\ LookupUid(w) = NoUid
                     /\ ResolveUid(Named(w), v)
                     /\ IF v = NoUid THEN Rejected(Named(w))
                                     ELSE Submitted(Named(w), i, v, FALSE)
  /\ UNCHANGED <<server, db, stmt>>

-----------------------------------------------------------------------------
(* EtDBStmt *)

(* prepare() looks the table up as Insert does, and keeps what an earlier  *)
(* prepare() found when it finds nothing; it keeps the batch in any case.  *)
Prepared(n, u, i) ==
  stmt' = Statement("PREPARED", n, u, i, FALSE, stmt.batch)

(* The metadata are found, at once or after resolving the uid.             *)
PrepareMeta(n) ==
  \E u \in Uids :
    /\ \/ GetTableMeta(n, u) /\ UNCHANGED uids
       \/ n \notin DOMAIN meta /\ Fetched(n, u) /\ ResolveUid(n, u)
    /\ Prepared(n, u, NodeOf[Owner[u][1]])

(* Only the uid is found: the dbId is a default.                           *)
PrepareUid(n) ==
  /\ GetTableMeta(n, NoUid)
  /\ \E u \in Uids : ResolveUid(n, u) /\ Prepared(n, u, 1)

(* Nothing is found: a uid of an earlier prepare() does as well.           *)
PrepareOld(n) ==
  /\ GetTableMeta(n, NoUid) /\ ResolveUid(n, NoUid)
  /\ stmt' = Statement(IF stmt.uid # NoUid THEN "PREPARED" ELSE "INIT", n,
                       stmt.uid, stmt.dbId, stmt.uid # NoUid, stmt.batch)

Prepare(w) ==
  /\ PrepareMeta(Named(w)) \/ PrepareUid(Named(w)) \/ PrepareOld(Named(w))
  /\ Silent /\ UNCHANGED <<server, dbIds, db>>

In(s, b) ==
  stmt' = Statement(s, stmt.named, stmt.uid, stmt.dbId, stmt.kept, b)
Quiet    == UNCHANGED <<server, caches, db>>

BindParam ==
  /\ stmt.state \in {"PREPARED", "BINDING", "BATCHED"}
  /\ In("BINDING", stmt.batch)
  /\ Silent /\ Quiet

AddBatch ==
  /\ stmt.state = "BINDING" /\ stmt.batch < MaxRows
  /\ In("BATCHED", stmt.batch + 1)
  /\ Silent /\ Quiet

(* bindParamBatch() puts its rows in the place of those added before.      *)
BindParamBatch(k) ==
  /\ stmt.state \in {"PREPARED", "BATCHED"}
  /\ In("BATCHED", k)
  /\ Silent /\ Quiet

CanSubmit == stmt.state = "BATCHED" /\ stmt.batch > 0 /\ stmt.uid # NoUid

(* execute(), and executeAsync() when it gets a batch id: otherwise the    *)
(* latter changes nothing.  The request or its answer can be lost.         *)
Execute ==
  /\ CanSubmit
  /\ \E into \in {Stored(stmt.dbId, stmt.uid), Nowhere} :
       last' = Request("execute", stmt.named, stmt.dbId, into, stmt.kept)
  /\ In("PREPARED", 0)
  /\ Quiet

(* close() keeps the uid and the dbId; createStmt() starts afresh.         *)
CloseStmt ==
  /\ In("INIT", 0)
  /\ Silent /\ Quiet

CreateStmt ==
  /\ stmt' = Statement("INIT", stmt.named, NoUid, 1, FALSE, 0)
  /\ Silent /\ Quiet

-----------------------------------------------------------------------------
Catalogue == \E n \in Tables : Create(n) \/ Drop(n)

Cache == \/ \E n \in Tables : Refresh(n)
         \/ \E w \in Written : Invalidate(w)

Sql == \/ \E d \in Dbs : Use(d)
       \/ \E w \in Written, up \in BOOLEAN : Select(w, up) \/ Insert(w, up)

Stmt == \/ \E w \in Written : Prepare(w)
        \/ BindParam \/ AddBatch \/ Execute \/ CloseStmt \/ CreateStmt
        \/ \E k \in 1 .. MaxRows : BindParamBatch(k)

Next == Catalogue \/ Cache \/ Sql \/ Stmt

Spec == Init /\ [][Next]_vars

-----------------------------------------------------------------------------
(* Properties *)

(* Type correctness; a table's uid is always one made for it.              *)
TypeOK ==
  /\ table \in [Tables -> Uids \cup {NoUid}] /\ fresh \subseteq Uids
  /\ \A n \in Tables : table[n] # NoUid => Owner[table[n]] = n
  /\ db \in Dbs \cup {NoDb}
  /\ DOMAIN meta \subseteq Written /\ \A k \in DOMAIN meta : meta[k] \in Uids
  /\ DOMAIN uids \subseteq Written /\ \A k \in DOMAIN uids : uids[k] \in Uids
  /\ dbIds \subseteq Dbs
  /\ stmt.state \in States /\ stmt.named \in Written
  /\ stmt.uid \in Uids \cup {NoUid} /\ stmt.dbId \in Nat
  /\ stmt.kept \in BOOLEAN /\ stmt.batch \in Nat
  /\ last.named \in Written /\ last.dbId \in Nat

(* What the client caches under a qualified name was once the metadata of  *)
(* the table of that name, never those of its namesake in another          *)
(* database: DROP, CREATE and USE make entries old, not wrong.             *)
CacheSound ==
  /\ \A k \in DOMAIN meta : k[1] # NoDb => Owner[meta[k]] = k
  /\ \A k \in DOMAIN uids : k[1] # NoDb => Owner[uids[k]] = k

(* The rows of an INSERT, and of a prepared one, are stored in the table   *)
(* that the statement names or not at all: "INSERT INTO other_db.tbl must  *)
(* land in the owning dbnode even if a different db is selected".  Two     *)
(* guesses of the client can miss: the uid cached under a name without its *)
(* database, and the uid of an earlier prepare().                          *)
StoredAsNamed ==
  /\ last.kind \in {"insert", "execute"}
  /\ last.named[1] # NoDb /\ ~last.guess
  => last.into \subseteq {last.named}

(* A statement that is prepared holds the uid of the table it was last     *)
(* prepared for, however often it was prepared, unless the last prepare()  *)
(* found nothing and kept the uid of the one before.                       *)
PreparedForNamed ==
  stmt.state # "INIT" /\ stmt.named[1] # NoDb /\ ~stmt.kept =>
    Owner[stmt.uid] = stmt.named

(* A SELECT on a table that exists is sent to the dbnode of its database,  *)
(* whatever database is selected, once a request for that database's dbId  *)
(* has succeeded: one that failed leaves no wrong dbId behind.  Not so if  *)
(* the table has a database prefix and the keywords are no capitals:       *)
(* extractTableDbPrefix() promises the prefix for any query and only looks *)
(* for "FROM ", "INTO " and the like.                                      *)
SelectRouted ==
  /\ last.kind = "select" /\ ~last.guess
  /\ Exists(last.named) /\ last.named[1] \in dbIds
  => last.dbId = NodeOf[last.named[1]]

(* An INSERT that finds the current metadata of its table, in the cache or *)
(* on the server, is stored there, wherever the statement was routed: only *)
(* metadata that cannot be had, or those of a table dropped and created    *)
(* again behind the cache's back, make an INSERT into an existing table    *)
(* fail.                                                                   *)
FreshInsertStored ==
  /\ last.kind \in {"insert", "rejected"} /\ Exists(last.named)
  /\ last.named \in DOMAIN meta /\ meta[last.named] = table[last.named]
  => last.into = {last.named}

=============================================================================
