------------------------ MODULE ShellSession_proofs ------------------------
(***************************************************************************)
(* The statements of the shell, for any databases, precisions, datetimes   *)
(* and limits: a datetime that 64 bits hold in the finest unit, but for    *)
(* the second before 1970, comes back as it was written, a group is not    *)
(* counted, and what the shell's own limit leaves out is said.             *)
(***************************************************************************)
EXTENDS ShellSession, Sums_proofs

-----------------------------------------------------------------------------
(* The inductive invariant *)

Kinds == {"table", "group"}
Row   == [ts : Int, meant : Datetimes \cup {<<>>}]

(* Rows have different times, and there are none where there is no table.  *)
Rows(S) == /\ S \subseteq Row /\ IsFiniteSet(S)
           /\ \A r, s \in S : r.ts = s.ts => r = s
Database(b) ==
  /\ b = [prec |-> b.prec, kind |-> b.kind, rows |-> b.rows]
  /\ b.prec \in Precs \cup {None} /\ b.kind \in Kinds \cup {None}
  /\ b.prec = None => b.kind = None
  /\ b.kind = None => b.rows = {}
  /\ Rows(b.rows)

(* The times of rows that carry a datetime are in the unit of database p.  *)
In(S, p) ==
  \A r \in S : r.meant # <<>> => p \in Precs /\ r.ts = Parsed(r.meant, p)

TypeServer ==
  /\ DOMAIN server = DBs
  /\ \A d \in DBs : Database(server[d]) /\ In(server[d].rows, server[d].prec)

TypeCaches ==
  /\ currentDB \in DBs \cup {None}
  /\ precCache \in [DBs -> Precs \cup {None}]
  /\ groupCache \in [DBs -> {None, "group", "other"}]
  /\ tainted \subseteq DBs

(* What the caches say of a database nobody else has changed is right.     *)
Fresh(d) ==
  /\ precCache[d] # None =>
       precCache[d] = IF server[d].prec = None THEN Ms ELSE server[d].prec
  /\ groupCache[d] # None =>
       (groupCache[d] = "group") = (server[d].kind = "group")
CachesRight == \A d \in DBs \ tainted : Fresh(d)

(* The statement under way. *)
Forms == {"plain", "limit", "aggregate"}
IsSelect == /\ job = [op |-> "select", db |-> job.db, form |-> job.form,
                      count |-> job.count]
            /\ job.form \in Forms /\ job.count \in BOOLEAN
            /\ job.count => AutoLimited(job.form)
Job ==
  /\ pc \in {"idle", "precision", "groups", "query", "count", "answered"}
  /\ IF pc = "idle" THEN job = NoJob /\ answer = Blank
     ELSE job.db \in DBs \cup {None} /\ job.op \in {"insert", "use", "select"}
  /\ job.op = "insert" => job.lit \in Datetimes /\ pc = "precision"
  /\ job.op = "use" => pc = "precision"
  /\ job.op = "select" => IsSelect
  /\ pc = "groups" => job.count = FALSE /\ AutoLimited(job.form)
  /\ pc \in {"groups", "query"} => answer = Blank
  /\ pc = "count" => job.count

(* Its target is no group when the total is to be asked for.               *)
Countable == pc \in {"query", "count"} /\ job.count /\ Target \in DBs \ tainted
               => server[Target].kind # "group"

(* The answer: rows of the target, and as many of them as there are or as  *)
(* the shell has asked for.                                                *)
Answer ==
  /\ answer = [ok |-> answer.ok, rows |-> answer.rows, all |-> answer.all,
               total |-> answer.total]
  /\ Rows(answer.rows)
  /\ answer.ok => Target \in DBs
  /\ Target \in DBs \ tainted => In(answer.rows, server[Target].prec)
  /\ answer.all \in Nat /\ answer.total \in Nat \cup {-1}
  /\ answer.total # -1 => AutoLimited(job.form)
  /\ AutoLimited(job.form) =>
       \/ Cardinality(answer.rows) = answer.all
       \/ /\ Cardinality(answer.rows) < answer.all
          /\ Cardinality(answer.rows) >= Limit
AnswerRight ==
  /\ pc \in {"count", "answered"} => Answer
  /\ pc = "precision" /\ job.op = "select" => Answer /\ answer.ok

SessionInv == /\ TypeServer /\ TypeCaches /\ CachesRight
              /\ Job /\ Countable /\ AnswerRight

-----------------------------------------------------------------------------
(* Datetimes *)

(* Division of C leaves a remainder smaller than the divisor.              *)
LEMMA Truncates ==
  ASSUME NEW a \in Int, NEW b \in Nat \ {0}
  PROVE  /\ CDiv(a, b) \in Int /\ CMod(a, b) \in Int
         /\ a = b * CDiv(a, b) + CMod(a, b)
         /\ -b < CMod(a, b) /\ CMod(a, b) < b
<1> DEFINE q == CDiv(a, b)
<1>1. CASE a >= 0
  <2>1. q = a \div b
    BY <1>1 DEF CDiv
  <2>2. q \in Int /\ a = b * q + (a % b) /\ a % b \in 0 .. b - 1
    BY <1>1, <2>1
  <2> HIDE DEF q
  <2>3. b * q \in Int /\ CMod(a, b) = a - b * q
    BY <2>2 DEF CMod, q
  <2> QED
    BY <2>2, <2>3 DEF q
<1>2. CASE ~(a >= 0)
  <2> DEFINE p == (-a) \div b
             r == (-a) % b
  <2>1. q = -p
    BY <1>2 DEF CDiv
  <2>2. p \in Int /\ -a = b * p + r /\ r \in 0 .. b - 1
    BY <1>2
  <2> HIDE DEF p, q, r
  <2>3. b * q = -(b * p) /\ b * p \in Int
    BY <2>1, <2>2
  <2>4. CMod(a, b) = a - b * q
    BY DEF CMod, q
  <2> QED
    BY <2>1, <2>2, <2>3, <2>4 DEF q
<1> QED
  BY <1>1, <1>2

(* A number below the modulus is its own remainder. *)
LEMMA Remainder ==
  ASSUME NEW m \in Nat \ {0}, NEW n \in 0 .. m - 1
  PROVE  n % m = n
OBVIOUS

(* A number is shown as seconds and a fraction that make it up.            *)
LEMMA Shows ==
  ASSUME NEW v \in Int, NEW p \in Precs
  PROVE  LET x == Displayed(v, p)
         IN  /\ x.secs \in Int /\ x.frac \in Nat /\ x.prec = p
             /\ x.secs * PerSecond[p] + x.frac = v
<1> DEFINE u == PerSecond[p]
           q == CDiv(v, u)
           r == CMod(v, u)
           x == Displayed(v, p)
<1>1. u \in Nat \ {0}
  BY SessionAssumption DEF SessionAssumption
<1>2. q \in Int /\ r \in Int /\ v = u * q + r /\ -u < r
  <2> HIDE DEF u
  <2> QED
    BY <1>1, Truncates
<1>3. /\ x.secs = q - IF r < 0 THEN 1 ELSE 0
      /\ x.frac = r + IF r < 0 THEN u ELSE 0
      /\ x.prec = p
  BY DEF Displayed
<1> HIDE DEF u, q, r, x
<1>4. CASE r < 0
  <2>1. x.secs = q - 1 /\ x.frac = r + u
    BY <1>1, <1>2, <1>3, <1>4
  <2>2. (q - 1) * u = u * q - u
    BY <1>1, <1>2
  <2>3. u * q \in Int
    BY <1>1, <1>2
  <2>4. x.secs * u + x.frac = v
    BY <1>1, <1>2, <2>1, <2>2, <2>3
  <2> QED
    BY <1>1, <1>2, <1>3, <2>1, <2>4 DEF u, x
<1>5. CASE ~(r < 0)
  <2>1. x.secs = q /\ x.frac = r
    BY <1>1, <1>2, <1>3, <1>5
  <2>2. q * u = u * q
    BY <1>1, <1>2
  <2> QED
    BY <1>1, <1>2, <1>3, <1>5, <2>1, <2>2 DEF u, x
<1> QED
  BY <1>4, <1>5

(* Two numbers are not shown alike. *)
LEMMA ShowsApart ==
  ASSUME NEW v \in Int, NEW w \in Int, NEW p \in Precs,
         Displayed(v, p) = Displayed(w, p)
  PROVE  v = w
BY Shows

(* Counts in the finest unit, wrapped or not, and in another unit.         *)
LEMMA Counts ==
  ASSUME NEW t \in Datetimes, NEW p \in Precs
  PROVE  /\ Finer(t) \in Int /\ Wrapped(Finer(t)) \in Int
         /\ Finer(t) \in -Half .. Half - 1 => Wrapped(Finer(t)) = Finer(t)
         /\ PerSecond[Finest] \div PerSecond[p] \in Nat \ {0}
         /\ PerSecond[Finest] =
              PerSecond[p] * (PerSecond[Finest] \div PerSecond[p])
<1> DEFINE F == PerSecond[Finest]
           u == PerSecond[p]
           n == Finer(t)
<1>1. /\ F \in Nat \ {0} /\ u \in Nat \ {0} /\ F % u = 0
      /\ t[1] \in Int /\ t[2] \in Int /\ Half \in Nat \ {0}
  BY SessionAssumption DEF SessionAssumption
<1> HIDE DEF F, u
<1>2. n \in Int
  BY <1>1 DEF Finer, F
<1> HIDE DEF n
<1>3. (n + Half) % (2 * Half) \in Int
  <2>1. n + Half \in Int /\ 2 * Half \in Nat \ {0}
    BY <1>1, <1>2
  <2> QED
    BY <2>1
<1>4. ASSUME n \in -Half .. Half - 1 PROVE (n + Half) % (2 * Half) = n + Half
  <2>1. n + Half \in 0 .. 2 * Half - 1 /\ 2 * Half \in Nat \ {0}
    BY <1>1, <1>2, <1>4
  <2> QED
    BY <2>1, Remainder
<1>5. Wrapped(n) \in Int /\ (n \in -Half .. Half - 1 => Wrapped(n) = n)
  BY <1>1, <1>2, <1>3, <1>4 DEF Wrapped
<1>6. F \div u \in Nat /\ F = u * (F \div u)
  BY <1>1
<1>7. F \div u # 0
  BY <1>1, <1>6
<1> QED
  BY <1>2, <1>5, <1>6, <1>7 DEF F, u, n

(* What is stored of a datetime is a number.                               *)
LEMMA ParsedType ==
  ASSUME NEW t \in Datetimes, NEW p \in Precs
  PROVE  Parsed(t, p) \in Int
<1>1. InUnit(Wrapped(Finer(t)), p) \in Int
  BY Counts, Truncates DEF InUnit
<1> QED
  BY <1>1 DEF Parsed

(* A datetime that can be represented is shown as itself, up to the unit.  *)
LEMMA ComesBack ==
  ASSUME NEW t \in Datetimes, NEW p \in Precs, Representable(t)
  PROVE  LET x == Displayed(Parsed(t, p), p)
         IN  /\ x.frac >= 0
             /\ Abs(InFinest(x) - Finer(t))
                  < PerSecond[Finest] \div PerSecond[x.prec]
<1> DEFINE F == PerSecond[Finest]
           u == PerSecond[p]
           k == F \div u
           n == Finer(t)
           v == Parsed(t, p)
           x == Displayed(v, p)
<1>1. F \in Nat \ {0} /\ u \in Nat \ {0}
  BY SessionAssumption DEF SessionAssumption
<1>2. n \in Int
  BY Counts
<1>3. k \in Nat \ {0} /\ F = u * k
  BY Counts
<1>4. v = CDiv(n, k)
  BY Counts DEF Representable, Parsed, InUnit
<1>5. /\ v \in Int /\ CMod(n, k) \in Int /\ n = k * v + CMod(n, k)
      /\ -k < CMod(n, k) /\ CMod(n, k) < k
  <2> HIDE DEF n, k, v
  <2> QED
    BY <1>2, <1>3, <1>4, Truncates
<1> HIDE DEF v
<1>6. /\ x.secs \in Int /\ x.frac \in Nat /\ x.prec = p
      /\ x.secs * u + x.frac = v
  BY <1>5, Shows
<1>7. InFinest(x) = x.secs * F + x.frac * k
  BY <1>6 DEF InFinest
<1> HIDE DEF F, u, k, n, x
<1>8. x.secs * F + x.frac * k = k * v
  <2>1. PICK s \in Int, f \in Nat : s = x.secs /\ f = x.frac
    BY <1>6
  <2>2. s * F = k * (s * u)
    BY <1>1, <1>3
  <2>3. s * u \in Int /\ k * (s * u) + f * k = k * (s * u + f)
    BY <1>1, <1>3
  <2> QED
    BY <1>6, <2>1, <2>2, <2>3
<1>9. Abs(k * v - n) < k
  <2>1. k * v \in Int /\ k * v - n = -CMod(n, k)
    BY <1>2, <1>3, <1>5
  <2> QED
    BY <1>3, <1>5, <2>1 DEF Abs
<1> QED
  BY <1>6, <1>7, <1>8, <1>9 DEF F, u, k, n, v, x

-----------------------------------------------------------------------------
(* Rows *)

(* No rows are rows. *)
LEMMA NoRows == Rows({}) /\ \A p : In({}, p)
BY FS_EmptySet DEF Rows, In

(* The earliest rows are all there are, or as many as were asked for.      *)
LEMMA EarliestMany ==
  ASSUME NEW S, Rows(S), NEW n \in Nat
  PROVE  /\ Earliest(n, S) \subseteq S /\ Rows(Earliest(n, S))
         /\ Cardinality(Earliest(n, S)) \in Nat /\ Cardinality(S) \in Nat
         /\ \/ Cardinality(Earliest(n, S)) = Cardinality(S)
            \/ /\ Cardinality(Earliest(n, S)) < Cardinality(S)
               /\ Cardinality(Earliest(n, S)) >= n
<1> DEFINE E == Earliest(n, S)
           Before(r) == {x \in S : x.ts < r.ts}
           Rank(r) == Cardinality(Before(r))
<1>1. IsFiniteSet(S) /\ \A r \in S : r.ts \in Int
  BY DEF Rows, Row
<1>2. E \subseteq S
  BY DEF Earliest
<1>3. /\ IsFiniteSet(E) /\ Cardinality(E) \in Nat /\ Cardinality(S) \in Nat
      /\ Cardinality(E) <= Cardinality(S)
  <2> HIDE DEF E
  <2> QED
    BY <1>1, <1>2, FS_Subset, FS_CardinalityType
<1>4. Rows(E)
  BY <1>2, <1>3 DEF Rows
<1>5. \A r \in S : r \in E <=> Rank(r) < n
  BY DEF Earliest
<1>6. \A r \in S : IsFiniteSet(Before(r)) /\ Rank(r) \in Nat
  BY <1>1, FS_Subset, FS_CardinalityType
<1>7. CASE E = S
  BY <1>2, <1>3, <1>4, <1>7
<1>8. CASE E # S
  <2> DEFINE R == {Rank(r) : r \in S \ E}
  <2>1. R \in SUBSET Nat /\ R # {}
    BY <1>2, <1>6, <1>8
  <2>2. PICK m \in R : \A y \in R : ~(<<y, m>> \in OpToRel(<, Nat))
    BY <2>1, NatLessThanWellFounded, WFMin, Zenon
  <2>3. \A y \in R : ~(y < m)
    BY <2>1, <2>2 DEF OpToRel
  <2>4. PICK r \in S \ E : Rank(r) = m
    BY <2>2
  <2> HIDE DEF E
  <2>5. ASSUME NEW x \in Before(r) PROVE x \in E
    <3>1. SUFFICES ASSUME x \notin E PROVE FALSE
      OBVIOUS
    <3>2. x \in S /\ x.ts < r.ts /\ Rank(x) \in R
      BY <3>1
    <3>3. Before(x) \subseteq Before(r) /\ x \notin Before(x)
      BY <1>1, <2>4, <3>2
    <3>4. Rank(x) <= Rank(r) /\ Rank(x) # Rank(r)
      <4>1. /\ IsFiniteSet(Before(r)) /\ Before(x) \in SUBSET Before(r)
            /\ Before(x) # Before(r)
        BY <1>6, <3>3
      <4> HIDE DEF Before
      <4> QED
        BY <4>1, FS_Subset
    <3>5. Rank(x) \in Nat /\ Rank(r) \in Nat
      BY <1>6, <3>2
    <3> HIDE DEF Rank, R
    <3> QED
      BY <2>3, <2>4, <3>2, <3>4, <3>5
  <2>6. Rank(r) <= Cardinality(E)
    <3>1. Before(r) \in SUBSET E
      BY <2>5
    <3> HIDE DEF Before
    <3> QED
      BY <1>3, <3>1, FS_Subset
  <2>7. Rank(r) >= n
    <3> HIDE DEF Before
    <3>1. ~(Rank(r) < n)
      BY <1>5, <2>4
    <3>2. Rank(r) \in Nat
      BY <1>6, <2>4
    <3> HIDE DEF Rank
    <3> QED
      BY <3>1, <3>2
  <2>8. Cardinality(E) # Cardinality(S)
    BY <1>1, <1>2, <1>8, FS_Subset
  <2>9. Rank(r) \in Nat
    BY <1>6
  <2> HIDE DEF Rank
  <2> QED
    BY <1>2, <1>3, <1>4, <2>6, <2>7, <2>8, <2>9 DEF E
<1> QED
  BY <1>7, <1>8

(* As many rows are shown as have come. *)
LEMMA ShownMany ==
  ASSUME NEW S, Rows(S), NEW p \in Precs
  PROVE  Cardinality(Shown(S, p)) = Cardinality(S) /\ Cardinality(S) \in Nat
<1> DEFINE Out(r) == [meant |-> r.meant, text |-> Displayed(r.ts, p)]
           f == [r \in S |-> Out(r)]
<1>1. IsFiniteSet(S) /\ \A r \in S : r.ts \in Int
  BY DEF Rows, Row
<1>2. ASSUME NEW r \in S, NEW s \in S, Out(r) = Out(s) PROVE r = s
  <2>1. Displayed(r.ts, p) = Displayed(s.ts, p)
    BY <1>2
  <2>2. r.ts = s.ts
    BY <1>1, <2>1, ShowsApart
  <2> QED
    BY <2>2 DEF Rows
<1>3. Shown(S, p) = {Out(r) : r \in S}
  BY DEF Shown
<1> HIDE DEF Out
<1>4. f \in Bijection(S, Shown(S, p))
  BY <1>2, <1>3 DEF Bijection, Injection, Surjection, IsInjective
<1>5. ExistsBijection(S, Shown(S, p))
  BY <1>4 DEF ExistsBijection
<1> QED
  BY <1>1, <1>5, FS_Bijection, FS_CardinalityType

(* A row that is written takes the place of one of the same time.          *)
LEMMA StoredRows ==
  ASSUME NEW S, Rows(S), NEW r \in Row
  PROVE  Rows(Stored(S, r))
<1>1. {x \in S : x.ts # r.ts} \in SUBSET S
  OBVIOUS
<1>2. IsFiniteSet({x \in S : x.ts # r.ts})
  BY <1>1, FS_Subset DEF Rows
<1>3. IsFiniteSet(Stored(S, r))
  BY <1>2, FS_AddElement DEF Stored
<1> QED
  BY <1>3 DEF Rows, Stored

(* A row inserted joins the rows in the unit of their database.              *)
LEMMA StoredIn ==
  ASSUME NEW S, NEW p, In(S, p), NEW r,
         r.meant # <<>> => p \in Precs /\ r.ts = Parsed(r.meant, p)
  PROVE  In(Stored(S, r), p)
BY DEF In, Stored

-----------------------------------------------------------------------------
(* The parts of the invariant that a step leaves alone.                    *)

LEMMA SessionInit == Init => SessionInv
<1> SUFFICES ASSUME Init PROVE SessionInv
  OBVIOUS
<1> USE SessionAssumption DEF SessionAssumption, Init
<1>1. ASSUME NEW d \in DBs
      PROVE  Database(server[d]) /\ In(server[d].rows, server[d].prec)
  <2>1. \/ server[d] = NoDb
        \/ server[d] \in [prec : Precs, kind : {"table", "group"}, rows : {{}}]
    OBVIOUS
  <2>2. server[d].rows = {}
    BY <2>1 DEF NoDb
  <2>3. Database(server[d])
    BY <2>1, <2>2, NoRows DEF Database, NoDb, Kinds
  <2> QED
    BY <2>2, <2>3, NoRows
<1>2. TypeServer
  BY <1>1 DEF TypeServer
<1>3. TypeCaches /\ CachesRight
  BY DEF TypeCaches, CachesRight, Fresh, Unknown
<1>4. Job /\ Countable /\ AnswerRight
  BY DEF Job, Countable, AnswerRight, NoJob, None
<1> QED
  BY <1>2, <1>3, <1>4 DEF SessionInv

(* The precision the caches give for a database nobody else has changed.   *)
LEMMA RightPrecision ==
  ASSUME TypeServer, CachesRight, NEW d \in DBs \ tainted, Known(d),
         server[d].prec # None
  PROVE  precCache[d] = server[d].prec
BY DEF CachesRight, Fresh, Known

(* A statement that begins. *)
LEMMA StartKeeps ==
  ASSUME SessionInv, NEW j, Start(j),
         \/ pc' = "idle" /\ j = NoJob
         \/ \E db \in DBs \cup {None} :
              \/ \E t \in Datetimes :
                   /\ pc' = "precision"
                   /\ j = [op |-> "insert", db |-> db, lit |-> t]
              \/ \E form \in Forms :
                   /\ j = [op |-> "select", db |-> db, form |-> form,
                           count |-> FALSE]
                   /\ pc' = IF AutoLimited(form) THEN "groups" ELSE "query"
  PROVE  SessionInv'
<1>1. /\ UNCHANGED <<server, currentDB, precCache, groupCache, tainted>>
      /\ job' = j /\ answer' = Blank
  BY DEF Start, caches
<1>2. TypeServer' /\ TypeCaches' /\ CachesRight'
  BY <1>1 DEF SessionInv, TypeServer, TypeCaches, CachesRight, Fresh
<1>3. CASE pc' = "idle" /\ j = NoJob
  BY <1>1, <1>2, <1>3 DEF SessionInv, Job, Countable, AnswerRight, NoJob, None
<1>4. ASSUME NEW db \in DBs \cup {None}, NEW t \in Datetimes,
             pc' = "precision", j = [op |-> "insert", db |-> db, lit |-> t]
      PROVE  SessionInv'
  BY <1>1, <1>2, <1>4 DEF SessionInv, Job, Countable, AnswerRight
<1>5. ASSUME NEW db \in DBs \cup {None}, NEW form \in Forms,
             j = [op |-> "select", db |-> db, form |-> form, count |-> FALSE],
             pc' = IF AutoLimited(form) THEN "groups" ELSE "query"
      PROVE  SessionInv'
  <2>1. pc' \in {"groups", "query"}
    BY <1>5
  <2> QED
    BY <1>1, <1>2, <1>5, <2>1
    DEF SessionInv, Job, IsSelect, Countable, AnswerRight
<1> QED
  BY <1>3, <1>4, <1>5

(* What the server does with a CREATE or a DROP.                           *)
LEMMA ChangesKeep ==
  ASSUME NEW b, Database(b), In(b.rows, b.prec), NEW c \in Changes(b)
  PROVE  Database(c) /\ In(c.rows, c.prec)
<1> USE SessionAssumption DEF SessionAssumption, Database, Kinds
<1>1. Database(NoDb) /\ In(NoDb.rows, NoDb.prec)
  BY NoRows DEF NoDb
<1>2. ASSUME NEW p \in Precs, c = [NoDb EXCEPT !.prec = p]
      PROVE  Database(c) /\ In(c.rows, c.prec)
  BY <1>2, NoRows DEF NoDb
<1>3. ASSUME b.prec # None, b.kind = None, NEW k \in Kinds,
             c = [b EXCEPT !.kind = k]
      PROVE  Database(c) /\ In(c.rows, c.prec)
  BY <1>3, NoRows
<1>4. ASSUME b.prec # None, c = [b EXCEPT !.kind = None, !.rows = {}]
      PROVE  Database(c) /\ In(c.rows, c.prec)
  <2>1. c = [prec |-> b.prec, kind |-> None, rows |-> {}]
    BY <1>4
  <2> QED
    BY <1>4, <2>1, NoRows
<1> QED
  BY <1>1, <1>2, <1>3, <1>4 DEF Changes

(* A CREATE or a DROP touches one database.                                  *)
LEMMA DdlServer ==
  ASSUME TypeServer, NEW d \in DBs,
         \E b \in Changes(server[d]) : server' = [server EXCEPT ![d] = b]
  PROVE  TypeServer' /\ \A e \in DBs \ {d} : server'[e] = server[e]
BY ChangesKeep DEF TypeServer

(* A statement that goes on about the same target keeps its answer right,  *)
(* if that database changes its precision only by being changed by others. *)
LEMMA AnswerSame ==
  ASSUME Answer, answer' = answer, job' = job, currentDB' = currentDB,
         tainted \subseteq tainted',
         \A d \in DBs \ tainted' : server'[d].prec = server[d].prec
  PROVE  Answer'
<1>1. Target' = Target
  BY DEF Target
<1>2. Target \in DBs \ tainted' => server'[Target].prec = server[Target].prec
  OBVIOUS
<1> HIDE DEF Target
<1> QED
  BY <1>1, <1>2 DEF Answer

(* What happens to the server while a statement is under way, by another   *)
(* client or by the statement itself, keeps the rest of the invariant.     *)
LEMMA ServerMoves ==
  ASSUME SessionInv, TypeServer',
         UNCHANGED <<currentDB, precCache, groupCache, pc, job, answer>>,
         tainted \subseteq tainted', tainted' \subseteq DBs,
         \A d \in DBs \ tainted' : /\ server'[d].prec = server[d].prec
                                   /\ server'[d].kind = server[d].kind
  PROVE  SessionInv'
<1>1. TypeCaches' /\ Job'
  BY DEF SessionInv, TypeCaches, Job, IsSelect
<1>2. CachesRight'
  BY DEF SessionInv, CachesRight, Fresh
<1>3. Target' = Target
  BY DEF Target
<1>4. Countable'
  <2>1. Countable
    BY DEF SessionInv
  <2> HIDE DEF Target
  <2> QED
    BY <1>3, <2>1 DEF Countable
<1>5. AnswerRight'
  BY AnswerSame DEF SessionInv, AnswerRight
<1> QED
  BY <1>1, <1>2, <1>4, <1>5 DEF SessionInv

(* CREATE and DROP, answered or lost, keep the invariant.                    *)
LEMMA DdlKeeps ==
  ASSUME SessionInv, NEW d \in DBs, DdlAnswered(d) \/ DdlLost(d)
  PROVE  SessionInv'
<1>1. /\ pc = "idle" /\ UNCHANGED <<currentDB, pc, job, answer>>
      /\ \E b \in Changes(server[d]) : server' = [server EXCEPT ![d] = b]
  BY DEF DdlAnswered, DdlLost, Ddl
<1>2. TypeServer' /\ \A e \in DBs \ {d} : server'[e] = server[e]
  BY <1>1, DdlServer DEF SessionInv
<1>3. Job' /\ Countable' /\ AnswerRight'
  <2>1. pc' = "idle" /\ job' = NoJob /\ answer' = Blank
    BY <1>1 DEF SessionInv, Job
  <2> QED
    BY <2>1 DEF Job, Countable, AnswerRight, NoJob, None
<1>4. TypeCaches' /\ CachesRight'
  <2>1. CASE ClearCaches /\ tainted' = {}
    BY <1>1, <2>1
    DEF SessionInv, TypeCaches, CachesRight, Fresh, ClearCaches, Unknown
  <2>2. CASE UNCHANGED caches /\ tainted' = tainted \cup {d}
    BY <1>1, <1>2, <2>2
    DEF SessionInv, TypeCaches, CachesRight, Fresh, caches
  <2> QED
    BY <2>1, <2>2 DEF DdlAnswered, DdlLost
<1> QED
  BY <1>2, <1>3, <1>4 DEF SessionInv

(* USE keeps the invariant.                                                  *)
LEMMA UseKeeps ==
  ASSUME SessionInv, NEW d \in DBs, Use(d)
  PROVE  SessionInv'
<1>1. /\ UNCHANGED <<server, precCache, groupCache, tainted>> /\ currentDB' = d
      /\ pc' = "precision" /\ job' = [op |-> "use", db |-> d]
      /\ answer' = Blank
  BY DEF Use, caches
<1>2. TypeServer' /\ TypeCaches' /\ CachesRight'
  BY <1>1 DEF SessionInv, TypeServer, TypeCaches, CachesRight, Fresh
<1>3. Job' /\ Countable' /\ AnswerRight'
  BY <1>1 DEF Job, Countable, AnswerRight
<1> QED
  BY <1>2, <1>3 DEF SessionInv

(* The two lookups. *)
LEMMA LookupKeeps ==
  ASSUME SessionInv, AskPrecision \/ AskGroups
  PROVE  SessionInv'
<1>1. /\ UNCHANGED <<server, currentDB, pc, job, answer>>
      /\ Target # None /\ pc \in {"precision", "groups"}
  BY DEF AskPrecision, AskGroups, Unchanged
<1>2. Target \in DBs
  BY <1>1 DEF SessionInv, Job, TypeCaches, Target
<1>3. PICK d \in DBs : d = Target
  BY <1>2
<1> HIDE DEF Target
<1>4. TypeServer' /\ Job'
  BY <1>1 DEF SessionInv, TypeServer, Job, IsSelect
<1>5. /\ tainted \subseteq tainted' /\ tainted' \subseteq DBs
      /\ \A e \in DBs \ {d} : /\ precCache'[e] = precCache[e]
                              /\ groupCache'[e] = groupCache[e]
  BY <1>3 DEF AskPrecision, AskGroups, Unchanged, SessionInv, TypeCaches
<1>6. Database(server[d])
  BY DEF SessionInv, TypeServer
<1>7. TypeCaches'
  BY <1>1, <1>3, <1>5, <1>6, SessionAssumption
  DEF SessionInv, TypeCaches, AskPrecision, AskGroups, Unchanged, Database,
      SessionAssumption
<1>8. d \in DBs \ tainted' => Fresh(d)'
  BY <1>1, <1>3, <1>5, SessionAssumption
  DEF SessionInv, TypeCaches, CachesRight, Fresh, AskPrecision, AskGroups,
      Unchanged, SessionAssumption
<1>9. CachesRight'
  BY <1>1, <1>5, <1>8 DEF SessionInv, CachesRight, Fresh
<1>10. Countable'
  BY <1>1 DEF Countable
<1>11. AnswerRight'
  BY <1>1, <1>5, AnswerSame DEF SessionInv, AnswerRight
<1> QED
  BY <1>4, <1>7, <1>9, <1>10, <1>11 DEF SessionInv

(* The end of a statement. *)
LEMMA FinishKeeps ==
  ASSUME SessionInv, TypeServer', Finish,
         UNCHANGED <<currentDB, precCache, groupCache, tainted>>,
         \A d \in DBs : /\ server'[d].prec = server[d].prec
                        /\ server'[d].kind = server[d].kind
  PROVE  SessionInv'
<1>1. pc' = "idle" /\ job' = NoJob /\ answer' = Blank
  BY DEF Finish
<1>2. TypeCaches' /\ CachesRight'
  BY DEF SessionInv, TypeCaches, CachesRight, Fresh
<1>3. Job' /\ Countable' /\ AnswerRight'
  BY <1>1 DEF Job, Countable, AnswerRight, NoJob, None
<1> QED
  BY <1>2, <1>3 DEF SessionInv

(* A row is inserted with its datetime in the unit the server has.         *)
LEMMA InsertKeeps ==
  ASSUME SessionInv, SendInsert
  PROVE  SessionInv'
<1> DEFINE r == [ts    |-> Parsed(job.lit, Precision),
                 meant |-> IF Target \in tainted THEN <<>> ELSE job.lit]
<1>1. /\ Ready /\ job.op = "insert" /\ Finish
      /\ UNCHANGED <<currentDB, precCache, groupCache, tainted>>
      /\ \/ UNCHANGED server
         \/ /\ Target # None /\ server[Target].kind = "table"
            /\ server' = [server EXCEPT ![Target].rows = Stored(@, r)]
  BY DEF SendInsert, Unchanged, caches
<1>2. CASE UNCHANGED server
  <2>1. TypeServer'
    BY <1>2 DEF SessionInv, TypeServer
  <2> QED
    BY <1>1, <1>2, <2>1, FinishKeeps
<1>3. CASE /\ Target # None /\ server[Target].kind = "table"
           /\ server' = [server EXCEPT ![Target].rows = Stored(@, r)]
  <2>1. Target \in DBs /\ job.lit \in Datetimes
    BY <1>1, <1>3 DEF SessionInv, Job, TypeCaches, Target, Ready
  <2>2. PICK d \in DBs : d = Target
    BY <2>1
  <2> HIDE DEF Target
  <2>3. Database(server[d]) /\ In(server[d].rows, server[d].prec)
    BY DEF SessionInv, TypeServer
  <2>4. server[d].prec \in Precs
    BY <1>3, <2>2, <2>3 DEF Database, None
  <2>5. /\ precCache[d] \in Precs /\ Precision = precCache[d]
        /\ d \notin tainted => precCache[d] = server[d].prec
    <3>1. Known(d) /\ Precision = precCache[d]
      BY <1>1, <1>3, <2>2 DEF Ready, Precision
    <3> QED
      BY <2>4, <3>1, RightPrecision, SessionAssumption
      DEF SessionInv, TypeCaches, Known, SessionAssumption
  <2>6. r.ts \in Int /\ r \in Row
    BY <2>1, <2>5, ParsedType DEF Row
  <2>7. r.meant # <<>> => /\ server[d].prec \in Precs
                          /\ r.ts = Parsed(r.meant, server[d].prec)
    BY <2>2, <2>4, <2>5
  <2> HIDE DEF r
  <2>8. /\ Rows(Stored(server[d].rows, r))
        /\ In(Stored(server[d].rows, r), server[d].prec)
    BY <2>3, <2>6, <2>7, StoredRows, StoredIn DEF Database
  <2>9. /\ server'[d] = [server[d] EXCEPT !.rows = Stored(@, r)]
        /\ \A e \in DBs \ {d} : server'[e] = server[e]
        /\ DOMAIN server' = DBs
    BY <1>3, <2>2 DEF SessionInv, TypeServer
  <2>10. /\ server'[d] = [prec |-> server[d].prec, kind |-> server[d].kind,
                          rows |-> Stored(server[d].rows, r)]
         /\ server[d].kind # None
    BY <1>3, <2>2, <2>3, <2>9 DEF Database, None
  <2>11. Database(server'[d]) /\ In(server'[d].rows, server'[d].prec)
    BY <2>3, <2>8, <2>10 DEF Database
  <2>12. TypeServer'
    BY <2>9, <2>11 DEF SessionInv, TypeServer
  <2>13. \A e \in DBs : /\ server'[e].prec = server[e].prec
                        /\ server'[e].kind = server[e].kind
    BY <2>9, <2>10
  <2> QED
    BY <1>1, <2>12, <2>13, FinishKeeps
<1> QED
  BY <1>1, <1>2, <1>3

(* A row of another client. *)
LEMMA OtherRowKeeps ==
  ASSUME SessionInv, NEW d \in DBs, NEW n \in OtherTimes, OtherRow(d, n)
  PROVE  SessionInv'
<1> DEFINE r == [ts |-> n, meant |-> <<>>]
<1>1. /\ UNCHANGED <<currentDB, precCache, groupCache, pc, job, answer,
                     tainted>>
      /\ server[d].kind # None
      /\ server' = [server EXCEPT ![d].rows = Stored(@, r)]
  BY DEF OtherRow, Other, caches
<1>2. /\ Database(server[d]) /\ In(server[d].rows, server[d].prec)
      /\ DOMAIN server = DBs
  BY DEF SessionInv, TypeServer
<1>3. r \in Row /\ r.meant = <<>>
  BY SessionAssumption DEF Row, SessionAssumption
<1> HIDE DEF r
<1>4. /\ Rows(Stored(server[d].rows, r))
      /\ In(Stored(server[d].rows, r), server[d].prec)
  BY <1>2, <1>3, StoredRows, StoredIn DEF Database
<1>5. /\ server'[d] = [prec |-> server[d].prec, kind |-> server[d].kind,
                       rows |-> Stored(server[d].rows, r)]
      /\ \A e \in DBs \ {d} : server'[e] = server[e]
      /\ DOMAIN server' = DBs
  BY <1>1, <1>2 DEF Database
<1>6. Database(server'[d]) /\ In(server'[d].rows, server'[d].prec)
  BY <1>1, <1>2, <1>4, <1>5 DEF Database
<1>7. TypeServer'
  BY <1>5, <1>6 DEF SessionInv, TypeServer
<1>8. \A e \in DBs : /\ server'[e].prec = server[e].prec
                     /\ server'[e].kind = server[e].kind
  BY <1>5
<1> QED
  BY <1>1, <1>7, <1>8, ServerMoves DEF SessionInv, TypeCaches

(* A SELECT finds out whether its table is a group, and asks for the total *)
(* only if it is none.                                                     *)
LEMMA GroupsKnownKeeps ==
  ASSUME SessionInv, GroupsKnown
  PROVE  SessionInv'
<1>1. /\ UNCHANGED <<server, currentDB, precCache, groupCache, answer, tainted>>
      /\ pc = "groups" /\ pc' = "query"
      /\ job' = [job EXCEPT !.count = ~IsGroup(Target)]
      /\ Target # None => groupCache[Target] # None
  BY DEF GroupsKnown, Unchanged, caches
<1>2. /\ IsSelect /\ AutoLimited(job.form) /\ job.db \in DBs \cup {None}
      /\ answer = Blank
  BY <1>1 DEF SessionInv, Job
<1>3. /\ job' = [op |-> "select", db |-> job.db, form |-> job.form,
                 count |-> ~IsGroup(Target)]
      /\ IsGroup(Target) \in BOOLEAN
  BY <1>1, <1>2 DEF IsSelect, IsGroup
<1>4. TypeServer' /\ TypeCaches' /\ CachesRight'
  BY <1>1 DEF SessionInv, TypeServer, TypeCaches, CachesRight, Fresh
<1>5. Job'
  BY <1>1, <1>2, <1>3 DEF Job, IsSelect
<1>6. AnswerRight'
  BY <1>1, <1>3 DEF AnswerRight
<1>7. Countable'
  <2>1. SUFFICES ASSUME job'.count, Target' \in DBs \ tainted
                 PROVE  server[Target'].kind # "group"
    BY <1>1 DEF Countable
  <2>2. Target' = Target
    BY <1>1, <1>3 DEF Target
  <2>3. Target # None
    BY <2>1, <2>2, SessionAssumption DEF SessionAssumption
  <2> HIDE DEF Target
  <2>4. groupCache[Target] # None /\ groupCache[Target] # "group"
    BY <1>1, <1>3, <2>1, <2>3 DEF IsGroup
  <2> QED
    BY <2>1, <2>2, <2>4 DEF SessionInv, CachesRight, Fresh
<1> QED
  BY <1>4, <1>5, <1>6, <1>7 DEF SessionInv

(* The rows come, as many as were asked for. *)
LEMMA QueryKeeps ==
  ASSUME SessionInv, SendQuery
  PROVE  SessionInv'
<1> DEFINE n == CASE job.form = "plain" -> Limit
                  [] job.form = "limit" -> Given
                  [] job.form = "aggregate" -> 0
<1>1. /\ UNCHANGED <<server, currentDB, precCache, groupCache, job, tainted>>
      /\ pc = "query" /\ pc' = IF job.count THEN "count" ELSE "answered"
      /\ answer' = IF Target # None /\ server[Target].kind # None
                   THEN [ok    |-> TRUE,
                         rows  |-> Earliest(n, server[Target].rows),
                         all   |-> Cardinality(server[Target].rows),
                         total |-> -1]
                   ELSE Blank
  BY DEF SendQuery, Unchanged, caches
<1>2. IsSelect /\ job.op = "select" /\ Target \in DBs \cup {None}
  BY <1>1 DEF SessionInv, Job, TypeCaches, Target
<1>3. TypeServer' /\ TypeCaches' /\ CachesRight'
  BY <1>1 DEF SessionInv, TypeServer, TypeCaches, CachesRight, Fresh
<1>4. Job'
  BY <1>1 DEF SessionInv, Job, IsSelect
<1>5. Target' = Target
  BY <1>1 DEF Target
<1> HIDE DEF Target
<1>6. Countable'
  BY <1>1, <1>5 DEF SessionInv, Countable
<1>7. n \in Nat /\ (AutoLimited(job.form) => n = Limit)
  <2>1. CASE job.form = "plain"
    BY <2>1, SessionAssumption DEF SessionAssumption
  <2>2. CASE job.form = "limit"
    BY <2>2, SessionAssumption DEF AutoLimited, SessionAssumption
  <2>3. CASE job.form = "aggregate"
    BY <2>3 DEF AutoLimited
  <2> QED
    BY <1>2, <2>1, <2>2, <2>3 DEF IsSelect, Forms
<1> HIDE DEF n
<1>8. Answer'
  <2>1. CASE Target # None /\ server[Target].kind # None
    <3>1. PICK d \in DBs : d = Target
      BY <1>2, <2>1
    <3>2. Database(server[d]) /\ In(server[d].rows, server[d].prec)
      BY DEF SessionInv, TypeServer
    <3>3. PICK E : E = Earliest(n, server[d].rows)
      OBVIOUS
    <3>4. /\ Rows(E) /\ E \subseteq server[d].rows
          /\ Cardinality(E) \in Nat /\ Cardinality(server[d].rows) \in Nat
          /\ \/ Cardinality(E) = Cardinality(server[d].rows)
             \/ /\ Cardinality(E) < Cardinality(server[d].rows)
                /\ Cardinality(E) >= n
      BY <1>7, <3>2, <3>3, EarliestMany DEF Database
    <3>5. In(E, server[d].prec)
      BY <3>2, <3>4 DEF In
    <3>6. answer' = [ok |-> TRUE, rows |-> E,
                     all |-> Cardinality(server[d].rows), total |-> -1]
      BY <1>1, <2>1, <3>1, <3>3
    <3>7. /\ answer'.rows = E /\ answer'.total = -1
          /\ answer'.all = Cardinality(server[d].rows)
          /\ answer' = [ok |-> answer'.ok, rows |-> answer'.rows,
                        all |-> answer'.all, total |-> answer'.total]
      BY <3>6
    <3>8. Target' = d /\ server'[d] = server[d] /\ job' = job
      BY <1>1, <1>5, <3>1
    <3> QED
      BY <1>7, <3>4, <3>5, <3>7, <3>8 DEF Answer
  <2>2. CASE ~(Target # None /\ server[Target].kind # None)
    <3>1. answer' = Blank
      BY <1>1, <2>2
    <3>2. /\ answer'.ok = FALSE /\ answer'.rows = {} /\ answer'.total = -1
          /\ answer'.all = 0
          /\ answer' = [ok |-> answer'.ok, rows |-> answer'.rows,
                        all |-> answer'.all, total |-> answer'.total]
      BY <3>1 DEF Blank
    <3> QED
      BY <3>2, NoRows, FS_EmptySet DEF Answer
  <2> QED
    BY <2>1, <2>2
<1>9. AnswerRight'
  BY <1>1, <1>8 DEF AnswerRight
<1> QED
  BY <1>3, <1>4, <1>6, <1>9 DEF SessionInv

(* The total comes, or does not. *)
LEMMA CountSent ==
  ASSUME SessionInv, SendCount
  PROVE  SessionInv'
<1>1. /\ UNCHANGED <<server, currentDB, precCache, groupCache, job, tainted>>
      /\ pc = "count" /\ pc' = "answered"
      /\ \/ answer' = answer
         \/ /\ Target # None
            /\ answer' = [answer EXCEPT
                            !.total = Cardinality(server[Target].rows)]
  BY DEF SendCount, Unchanged, caches
<1>2. /\ IsSelect /\ job.op = "select" /\ AutoLimited(job.form)
      /\ Target \in DBs \cup {None}
  BY <1>1 DEF SessionInv, Job, IsSelect, TypeCaches, Target
<1>3. TypeServer' /\ TypeCaches' /\ CachesRight'
  BY <1>1 DEF SessionInv, TypeServer, TypeCaches, CachesRight, Fresh
<1>4. Job'
  BY <1>1 DEF SessionInv, Job, IsSelect
<1>5. Countable'
  BY <1>1 DEF Countable
<1>6. Target' = Target /\ Answer
  BY <1>1 DEF Target, SessionInv, AnswerRight
<1> HIDE DEF Target
<1>7. Answer'
  <2>1. CASE answer' = answer
    BY <1>1, <1>6, <2>1 DEF Answer
  <2>2. ASSUME Target # None,
               answer' = [answer EXCEPT
                            !.total = Cardinality(server[Target].rows)]
        PROVE  Answer'
    <3>1. Cardinality(server[Target].rows) \in Nat
      BY <1>2, <2>2, FS_CardinalityType
      DEF SessionInv, TypeServer, Database, Rows
    <3>2. answer' = [ok    |-> answer.ok, rows |-> answer.rows,
                     all   |-> answer.all,
                     total |-> Cardinality(server[Target].rows)]
      BY <1>6, <2>2 DEF Answer
    <3> QED
      BY <1>1, <1>2, <1>6, <3>1, <3>2 DEF Answer
  <2> QED
    BY <1>1, <2>1, <2>2
<1>8. AnswerRight'
  BY <1>1, <1>7 DEF AnswerRight
<1> QED
  BY <1>3, <1>4, <1>5, <1>8 DEF SessionInv

(* The statement's answer, used or reported, keeps the invariant.            *)
LEMMA AnsweredKeeps ==
  ASSUME SessionInv, Answered
  PROVE  SessionInv'
<1>1. /\ UNCHANGED <<server, currentDB, precCache, groupCache, tainted>>
      /\ pc = "answered"
      /\ IF answer.ok THEN pc' = "precision" /\ UNCHANGED <<job, answer>>
         ELSE Finish
  BY DEF Answered, Unchanged, caches
<1>2. TypeServer'
  BY <1>1 DEF SessionInv, TypeServer
<1>3. CASE Finish
  BY <1>1, <1>2, <1>3, FinishKeeps
<1>4. CASE answer.ok /\ pc' = "precision" /\ UNCHANGED <<job, answer>>
  <2>1. TypeCaches' /\ CachesRight'
    BY <1>1 DEF SessionInv, TypeCaches, CachesRight, Fresh
  <2>2. Job' /\ Countable'
    BY <1>1, <1>4 DEF SessionInv, Job, IsSelect, Countable
  <2>3. Answer'
    BY <1>1, <1>4, AnswerSame DEF SessionInv, AnswerRight
  <2> QED
    BY <1>2, <1>4, <2>1, <2>2, <2>3 DEF SessionInv, AnswerRight
<1> QED
  BY <1>1, <1>3, <1>4

(* The invariant of the session. *)
THEOREM SessionInvariant == Spec => []SessionInv
<1>1. SessionInv /\ [Next]_vars => SessionInv'
  <2> SUFFICES ASSUME SessionInv, [Next]_vars PROVE SessionInv'
    OBVIOUS
  <2>1. ASSUME NEW db \in DBs \cup {None}, NEW t \in Datetimes, Insert(db, t)
        PROVE  SessionInv'
    BY <2>1, StartKeeps DEF Insert
  <2>2. ASSUME NEW db \in DBs \cup {None}, NEW form \in Forms,
               NEW clause \in Clauses,
               Select(db, form, clause)
        PROVE  SessionInv'
    BY <2>2, StartKeeps DEF Select
  <2>3. ASSUME NEW db, NEW form, NEW clause, Reject(db, form, clause)
        PROVE  SessionInv'
    BY <2>3, StartKeeps DEF Reject
  <2>4. ASSUME NEW d \in DBs, DdlAnswered(d) \/ DdlLost(d) \/ Use(d)
        PROVE  SessionInv'
    BY <2>4, DdlKeeps, UseKeeps
  <2>5. CASE AskPrecision \/ AskGroups
    BY <2>5, LookupKeeps
  <2>6. CASE SendInsert
    BY <2>6, InsertKeeps
  <2>7. CASE UseDone \/ ShowAnswer
    <3>1. /\ Finish
          /\ UNCHANGED <<server, currentDB, precCache, groupCache, tainted>>
      BY <2>7 DEF UseDone, ShowAnswer, Unchanged, caches
    <3>2. TypeServer'
      BY <3>1 DEF SessionInv, TypeServer
    <3> QED
      BY <3>1, <3>2, FinishKeeps
  <2>8. CASE GroupsKnown
    BY <2>8, GroupsKnownKeeps
  <2>9. CASE SendQuery
    BY <2>9, QueryKeeps
  <2>10. CASE SendCount
    BY <2>10, CountSent
  <2>11. CASE Answered
    BY <2>11, AnsweredKeeps
  <2>12. ASSUME NEW d \in DBs, OtherDdl(d) PROVE SessionInv'
    <3>1. TypeServer' /\ \A e \in DBs \ {d} : server'[e] = server[e]
      BY <2>12, DdlServer DEF OtherDdl, SessionInv
    <3>2. /\ UNCHANGED <<currentDB, precCache, groupCache, pc, job, answer>>
          /\ tainted' = tainted \cup {d} /\ tainted \subseteq DBs
      BY <2>12 DEF OtherDdl, Other, caches, SessionInv, TypeCaches
    <3> QED
      BY <3>1, <3>2, ServerMoves
  <2>13. ASSUME NEW d \in DBs, NEW n \in OtherTimes, OtherRow(d, n)
         PROVE  SessionInv'
    BY <2>13, OtherRowKeeps
  <2>14. CASE UNCHANGED vars
    <3>1. UNCHANGED <<server, currentDB, precCache, groupCache, pc, job, answer,
                      tainted>>
      BY <2>14 DEF vars, caches
    <3>2. TypeServer'
      BY <3>1 DEF SessionInv, TypeServer
    <3> QED
      BY <3>1, <3>2, ServerMoves DEF SessionInv, TypeCaches
  <2> QED
    BY <2>1, <2>2, <2>3, <2>4, <2>5, <2>6, <2>7, <2>8, <2>9, <2>10,
       <2>11, <2>12, <2>13, <2>14
    DEF Next, Statement, Forms
<1> QED
  BY SessionInit, <1>1, PTL DEF Spec

-----------------------------------------------------------------------------
(* The total of a group is never asked for, unless others have changed the *)
(* database since the shell learned of it.                                 *)
THEOREM SessionNoGroupTotal == Spec => []NoGroupTotal
<1>1. SessionInv => NoGroupTotal
  <2> SUFFICES ASSUME SessionInv, pc = "count", Target # None,
                      Target \notin tainted
               PROVE  server[Target].kind # "group"
    BY DEF NoGroupTotal
  <2>1. Target \in DBs /\ job.count
    BY DEF SessionInv, Job, TypeCaches, Target
  <2> QED
    BY <2>1 DEF SessionInv, Countable
<1> QED
  BY <1>1, SessionInvariant, PTL

(* What is shown is the answer, in the unit of its database.               *)
LEMMA Screens ==
  ASSUME SessionInv, Next
  PROVE  \/ UNCHANGED screen \/ screen' = NoShow
         \/ \E p \in Precs :
              /\ Answer
              /\ Target \in DBs \ tainted => In(answer.rows, p)
              /\ screen' = [rows  |-> Shown(answer.rows, p),
                            sure  |-> Target \notin tainted,
                            note  |-> Note,
                            all   |-> IF AutoLimited(job.form)
                                      THEN answer.all ELSE 0,
                            total |-> answer.total]
              /\ Target \in DBs
<1>1. CASE ShowAnswer
  <2>1. pc = "precision" /\ job.op = "select" /\ Ready
    BY <1>1 DEF ShowAnswer, Ready
  <2>2. Answer /\ Target \in DBs
    BY <2>1 DEF SessionInv, AnswerRight, Answer
  <2>3. PICK d \in DBs : d = Target
    BY <2>2
  <2>4. Known(d) /\ Precision = precCache[d]
    BY <2>1, <2>3, SessionAssumption DEF Ready, Precision, SessionAssumption
  <2> HIDE DEF Target
  <2>5. Precision \in Precs
    BY <2>4 DEF Known, SessionInv, TypeCaches
  <2>6. Target \in DBs \ tainted => In(answer.rows, Precision)
    <3>1. SUFFICES ASSUME d \notin tainted PROVE In(answer.rows, Precision)
      BY <2>3
    <3>2. In(answer.rows, server[d].prec)
      BY <2>2, <2>3, <3>1 DEF Answer
    <3>3. SUFFICES ASSUME NEW r \in answer.rows, r.meant # <<>>
                   PROVE  r.ts = Parsed(r.meant, Precision)
      BY <2>5 DEF In
    <3>4. server[d].prec \in Precs /\ r.ts = Parsed(r.meant, server[d].prec)
      BY <3>2, <3>3 DEF In
    <3>5. precCache[d] = server[d].prec
      BY <2>4, <3>1, <3>4, RightPrecision, SessionAssumption
      DEF SessionInv, SessionAssumption
    <3> QED
      BY <2>4, <3>4, <3>5
  <2> QED
    BY <1>1, <2>2, <2>5, <2>6 DEF ShowAnswer
<1>2. CASE Statement
  BY <1>2 DEF Statement, Insert, Select, Reject, Start, DdlAnswered, DdlLost,
                Ddl, Use
<1>3. CASE AskPrecision \/ AskGroups
  BY <1>3 DEF AskPrecision, AskGroups, Unchanged
<1>4. CASE SendInsert \/ UseDone \/ GroupsKnown
  BY <1>4 DEF SendInsert, UseDone, GroupsKnown, Unchanged
<1>5. CASE SendQuery \/ SendCount \/ Answered
  BY <1>5 DEF SendQuery, SendCount, Answered, Unchanged
<1>6. CASE \E d \in DBs : OtherDdl(d) \/ \E n \in OtherTimes : OtherRow(d, n)
  BY <1>6 DEF OtherDdl, OtherRow, Other
<1> QED
  BY <1>1, <1>2, <1>3, <1>4, <1>5, <1>6 DEF Next

(* A datetime that is inserted is shown as itself, up to the unit of its   *)
(* database, unless others have changed the database since, mktime()       *)
(* refuses it or the finest unit cannot hold it.                           *)
THEOREM SessionRoundTrips == Spec => []RoundTrips
<1>1. Init => RoundTrips
  BY DEF Init, NoShow, RoundTrips
<1>2. SessionInv /\ RoundTrips /\ [Next]_vars => RoundTrips'
  <2> SUFFICES ASSUME SessionInv, RoundTrips, [Next]_vars PROVE RoundTrips'
    OBVIOUS
  <2>1. CASE UNCHANGED screen
    BY <2>1 DEF RoundTrips
  <2>2. CASE screen' = NoShow
    BY <2>2 DEF RoundTrips, NoShow
  <2>3. ASSUME NEW p \in Precs, Answer, Target \in DBs,
               Target \in DBs \ tainted => In(answer.rows, p),
               screen' = [rows  |-> Shown(answer.rows, p),
                          sure  |-> Target \notin tainted,
                          note  |-> Note,
                          all   |-> IF AutoLimited(job.form)
                                    THEN answer.all ELSE 0,
                          total |-> answer.total]
        PROVE  RoundTrips'
    <3>1. SUFFICES ASSUME Target \notin tainted, NEW r \in screen'.rows,
                          r.meant # <<>>, Representable(r.meant)
                   PROVE  /\ r.text.frac >= 0
                          /\ Abs(InFinest(r.text) - Finer(r.meant))
                               < PerSecond[Finest] \div PerSecond[r.text.prec]
      <4>1. screen'.sure = (Target \notin tainted)
        BY <2>3
      <4> HIDE DEF Target
      <4> QED
        BY <4>1 DEF RoundTrips
    <3>2. PICK s \in answer.rows :
            r.meant = s.meant /\ r.text = Displayed(s.ts, p)
      BY <2>3, <3>1 DEF Shown
    <3>3. s \in Row /\ s.meant \in Datetimes /\ s.ts = Parsed(s.meant, p)
      <4> HIDE DEF Target
      <4> QED
        BY <2>3, <3>1, <3>2 DEF Answer, Rows, Row, In
    <3>4. PICK t \in Datetimes : t = s.meant
      BY <3>3
    <3>5. r.meant = t /\ r.text = Displayed(Parsed(t, p), p)
      BY <3>2, <3>3, <3>4
    <3> QED
      BY <3>1, <3>5, ComesBack
  <2>4. CASE UNCHANGED vars
    BY <2>1, <2>4 DEF vars
  <2> QED
    BY <2>1, <2>2, <2>3, <2>4, Screens
<1> QED
  BY <1>1, <1>2, SessionInvariant, PTL DEF Spec

(* What the shell's own limit leaves out is said, and only that is.        *)
THEOREM SessionTruncationTold == Spec => []TruncationTold
<1>1. Init => TruncationTold
  BY FS_EmptySet DEF Init, NoShow, TruncationTold, None
<1>2. SessionInv /\ TruncationTold /\ [Next]_vars => TruncationTold'
  <2> SUFFICES ASSUME SessionInv, TruncationTold, [Next]_vars
               PROVE  TruncationTold'
    OBVIOUS
  <2>1. CASE UNCHANGED screen
    BY <2>1 DEF TruncationTold
  <2>2. CASE screen' = NoShow
    BY <2>2, FS_EmptySet DEF TruncationTold, NoShow, None
  <2>3. ASSUME NEW p \in Precs, Answer,
               screen' = [rows  |-> Shown(answer.rows, p),
                          sure  |-> Target \notin tainted,
                          note  |-> Note,
                          all   |-> IF AutoLimited(job.form)
                                    THEN answer.all ELSE 0,
                          total |-> answer.total]
        PROVE  TruncationTold'
    <3>1. PICK c \in Nat : /\ c = Cardinality(answer.rows)
                           /\ c = Cardinality(screen'.rows)
      BY <2>3, ShownMany DEF Answer
    <3>2. /\ screen'.note = Note /\ screen'.total = answer.total
          /\ screen'.all = IF AutoLimited(job.form) THEN answer.all ELSE 0
      BY <2>3
    <3>3. Note = IF answer.total > c THEN "total"
                 ELSE IF AutoLimited(job.form) /\ c >= Limit
                 THEN "limited" ELSE None
      BY <3>1 DEF Note
    <3>4. /\ answer.all \in Nat /\ answer.total \in Nat \cup {-1}
          /\ Limit \in Nat
          /\ answer.total # -1 => AutoLimited(job.form)
          /\ AutoLimited(job.form) =>
               c = answer.all \/ (c < answer.all /\ c >= Limit)
      <4>1. Limit \in Nat
        BY SessionAssumption DEF SessionAssumption
      <4>2. /\ answer.all \in Nat /\ answer.total \in Nat \cup {-1}
            /\ answer.total # -1 => AutoLimited(job.form)
        BY <2>3 DEF Answer
      <4>3. AutoLimited(job.form) =>
              c = answer.all \/ (c < answer.all /\ c >= Limit)
        BY <2>3, <3>1 DEF Answer
      <4> QED
        BY <4>1, <4>2, <4>3
    <3>5. CASE AutoLimited(job.form)
      BY <3>1, <3>2, <3>3, <3>4, <3>5 DEF TruncationTold, None
    <3>6. CASE ~AutoLimited(job.form)
      BY <3>1, <3>2, <3>3, <3>4, <3>6 DEF TruncationTold, None
    <3> QED
      BY <3>5, <3>6
  <2>4. CASE UNCHANGED vars
    BY <2>1, <2>4 DEF vars
  <2> QED
    BY <2>1, <2>2, <2>3, <2>4, Screens
<1> QED
  BY <1>1, <1>2, SessionInvariant, PTL DEF Spec

=============================================================================
