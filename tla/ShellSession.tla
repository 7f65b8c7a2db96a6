---------------------------- MODULE ShellSession ----------------------------
(***************************************************************************)
(* The statements of the interactive shell (executeSQL() of                *)
(* src/client/EtDBShell.h) against a server that other clients change.     *)
(* The shell turns the datetimes of an INSERT into numbers and the numbers *)
(* of an answer into datetimes, in the unit of the database it believes    *)
(* them to belong to, limits a SELECT that has no LIMIT and asks for the   *)
(* total.  What it believes it keeps in two caches, which only its own     *)
(* CREATE and DROP statements clear.                                       *)
(*                                                                         *)
(* The server is external: a database has a precision, one name that is a  *)
(* table or a group, and its rows.  Each round trip is one step; other     *)
(* clients act between them.                                               *)
(***************************************************************************)
EXTENDS Integers, FiniteSets

CONSTANTS
  DBs,       (* database names, as the shell lower-cases them              *)
  PerSecond, (* PerSecond[p]: the units of precision p in a second         *)
  Ms, Finest,(* the precision assumed by default, and that of a literal    *)
  Datetimes, (* the literals: <<seconds since 1970, fraction in Finest>>   *)
  Half,      (* int64_t holds -Half .. Half - 1; 2^63 in the code          *)
  Limit,     (* the rows shown without a LIMIT; 100 in the code            *)
  Given,     (* the LIMIT a statement may give                             *)
  Clauses,   (* the words that follow the table in a SELECT                *)
  OtherTimes,(* the times of rows that other clients write                 *)
  MaxRows, MaxStmts, MaxOthers    (* bounds on rows, statements, others    *)

Precs == DOMAIN PerSecond
None  == "none"

ASSUME SessionAssumption ==
  /\ None \notin DBs \cup Precs /\ {Ms, Finest} \subseteq Precs
  /\ \A p \in Precs : /\ PerSecond[p] \in Nat \ {0}
                      /\ PerSecond[Finest] % PerSecond[p] = 0
  /\ Datetimes \subseteq Int \X Int /\ OtherTimes \subseteq Int
  /\ Half \in Nat \ {0} /\ Limit \in Nat /\ Given \in Nat

VARIABLES
  server,     (* server[d]: [prec, kind, rows], prec None where there is none *)
  currentDB, precCache, groupCache,
  pc, job,    (* where executeSQL() is, and in which statement             *)
  answer,     (* what it has: rows, whether they came, the total           *)
  screen,     (* what it showed last                                       *)
  tainted,    (* history: databases changed by others, or that a lookup    *)
              (* failed for, or an answer was lost of, since the caches    *)
              (* were last cleared                                         *)
  stmts, others

caches == <<precCache, groupCache>>
vars == <<server, currentDB, caches, pc, job, answer, screen, tainted, stmts, others>>

NoDb    == [prec |-> None, kind |-> None, rows |-> {}]
Blank   == [ok |-> FALSE, rows |-> {}, all |-> 0, total |-> -1]
NoShow  == [rows |-> {}, sure |-> FALSE, note |-> None, all |-> 0, total |-> -1]
NoJob   == [op |-> None]
Unknown == [d \in DBs |-> None]

Init ==
  /\ server \in [DBs -> [prec : Precs, kind : {"table", "group"}, rows : {{}}]
                        \cup {NoDb}]
  /\ currentDB = None /\ precCache = Unknown /\ groupCache = Unknown
  /\ pc = "idle" /\ job = NoJob /\ answer = Blank /\ screen = NoShow
  /\ tainted = {} /\ stmts = 0 /\ others = 0

-----------------------------------------------------------------------------
(* Datetimes *)

(* Division and remainder of C round toward zero. *)
CDiv(a, b) == IF a >= 0 THEN a \div b ELSE -((-a) \div b)
CMod(a, b) == a - b * CDiv(a, b)

Finer(t)   == t[1] * PerSecond[Finest] + t[2]
Wrapped(n) == ((n + Half) % (2 * Half)) - Half
InUnit(n, p) == CDiv(n, PerSecond[Finest] \div PerSecond[p])

(* mktime() returns -1 for what it cannot represent, which is also the     *)
(* second before 1970: such a literal is sent as it was typed, and the     *)
(* client takes what is no number for 0.                                   *)
Refused(t) == t[1] = -1

(* parseDatetimeToTs() counts in the finest unit, within 64 bits (an       *)
(* overflow, undefined in C, wraps), and cuts to the unit asked for.       *)
Parsed(t, p) == IF Refused(t) THEN 0 ELSE InUnit(Wrapped(Finer(t)), p)

(* formatTimestampDisplay(): a fraction is never negative. *)
Displayed(v, p) == LET u == PerSecond[p]
                       neg == CMod(v, u) < 0
                   IN  [secs |-> CDiv(v, u) - IF neg THEN 1 ELSE 0,
                        frac |-> CMod(v, u) + IF neg THEN u ELSE 0, prec |-> p]

-----------------------------------------------------------------------------
Unchanged(vs) == UNCHANGED <<vs, stmts, others>>

Target == IF job.db = None THEN currentDB ELSE job.db

Start(j) == /\ pc = "idle" /\ stmts < MaxStmts /\ stmts' = stmts + 1
            /\ job' = j /\ answer' = Blank /\ screen' = NoShow
            /\ UNCHANGED <<server, currentDB, caches, tainted, others>>
Finish   == pc' = "idle" /\ job' = NoJob /\ answer' = Blank

(* INSERT: the unit of the literals is looked up first. *)
Insert(db, t) == Start([op |-> "insert", db |-> db, lit |-> t])
                 /\ pc' = "precision"

(* SELECT: limited by the shell when it is no aggregate and has no LIMIT.  *)
(* A word after the table that begins no clause stops it here.             *)
ValidClauses == {None, "WHERE", "GROUP", "ORDER", "LIMIT", "HAVING"}
AutoLimited(form) == form = "plain"
Select(db, form, clause) ==
  /\ clause \in ValidClauses
  /\ Start([op |-> "select", db |-> db, form |-> form,
            count |-> FALSE])
  /\ pc' = IF AutoLimited(form) THEN "groups" ELSE "query"
Reject(db, form, clause) ==
  /\ clause \notin ValidClauses
  /\ Start(NoJob) /\ pc' = "idle"

(* CREATE and DROP, of a database, a table or a group. *)
Changes(b) ==
  IF b.prec = None THEN {[NoDb EXCEPT !.prec = p] : p \in Precs}
  ELSE {NoDb} \cup
       IF b.kind = None THEN {[b EXCEPT !.kind = k] : k \in {"table", "group"}}
       ELSE {[b EXCEPT !.kind = None, !.rows = {}]}

Ddl(d) ==
  /\ pc = "idle" /\ stmts < MaxStmts /\ stmts' = stmts + 1
  /\ \E b \in Changes(server[d]) : server' = [server EXCEPT ![d] = b]
  /\ screen' = NoShow
  /\ UNCHANGED <<currentDB, pc, job, answer, others>>

NothingCleared == UNCHANGED caches                               \* mutant
ClearCaches == precCache' = Unknown /\ groupCache' = Unknown

DdlAnswered(d) == Ddl(d) /\ ClearCaches /\ tainted' = {}
(* The answer does not come: an error, and the caches stay. *)
DdlLost(d)     == Ddl(d) /\ UNCHANGED caches /\ tainted' = tainted \cup {d}

(* USE, and the lookup of the precision that follows it. *)
Use(d) ==
  /\ pc = "idle" /\ stmts < MaxStmts /\ stmts' = stmts + 1
  /\ server[d].prec # None
  /\ currentDB' = d /\ pc' = "precision" /\ job' = [op |-> "use", db |-> d]
  /\ answer' = Blank /\ screen' = NoShow
  /\ UNCHANGED <<server, caches, tainted, others>>

-----------------------------------------------------------------------------
(* lookupPrecision(): milliseconds where nothing better is known, which is *)
(* remembered too.                                                         *)

Known(d) == d # None /\ precCache[d] # None

AskPrecision ==
  /\ pc = "precision" /\ Target # None /\ ~Known(Target)
  /\ \/ /\ precCache' = [precCache EXCEPT ![Target] =
                           IF server[Target].prec = None THEN Ms ELSE server[Target].prec]
        /\ UNCHANGED tainted
     \/ /\ precCache' = [precCache EXCEPT ![Target] = Ms]
        /\ tainted' = tainted \cup {Target}
  /\ Unchanged(<<server, currentDB, groupCache, pc, job, answer, screen>>)

Ready     == pc = "precision" /\ (Target # None => Known(Target))
CurrentPrecision == IF Known(currentDB) THEN precCache[currentDB] ELSE Ms \* mutant
Precision == IF Target = None THEN Ms ELSE precCache[Target]

(* A row of the same time is replaced. *)
Stored(rows, r) == {x \in rows : x.ts # r.ts} \cup {r}

SendInsert ==
  /\ Ready /\ job.op = "insert"
  /\ LET d == Target
         r == [ts    |-> Parsed(job.lit, Precision),
               meant |-> IF d \in tainted THEN <<>> ELSE job.lit]
     IN  IF d # None /\ server[d].kind = "table" /\ Cardinality(server[d].rows) < MaxRows
         THEN server' = [server EXCEPT ![d].rows = Stored(@, r)]
         ELSE UNCHANGED server
  /\ Finish
  /\ Unchanged(<<currentDB, caches, screen, tainted>>)

UseDone == /\ Ready /\ job.op = "use"
           /\ Finish
           /\ Unchanged(<<server, currentDB, caches, screen, tainted>>)

(* lookupGroups(): no answer counts as no groups, which is remembered too. *)
AskGroups ==
  /\ pc = "groups" /\ Target # None /\ groupCache[Target] = None
  /\ \/ /\ groupCache' = [groupCache EXCEPT ![Target] =
                            IF server[Target].kind = "group" THEN "group" ELSE "other"]
        /\ UNCHANGED tainted
     \/ /\ groupCache' = [groupCache EXCEPT ![Target] = "other"]
        /\ tainted' = tainted \cup {Target}
  /\ Unchanged(<<server, currentDB, precCache, pc, job, answer, screen>>)

(* fromTargetIsGroup() *)
IsGroup(d) == d # None /\ groupCache[d] = "group"

GroupsKnown ==
  /\ pc = "groups" /\ (Target # None => groupCache[Target] # None)
  /\ pc' = "query" /\ job' = [job EXCEPT !.count = ~IsGroup(Target)]
  /\ Unchanged(<<server, currentDB, caches, answer, screen, tainted>>)

(* The rows come in the order of their times. *)
Earliest(n, rows) == {r \in rows : Cardinality({x \in rows : x.ts < r.ts}) < n}
SendQuery ==
  /\ pc = "query"
  /\ LET d == Target
         there == d # None /\ server[d].kind # None
         n == CASE job.form = "plain" -> Limit
                [] job.form = "limit" -> Given
                [] job.form = "aggregate" -> 0
     IN  answer' = IF there
                   THEN [ok |-> TRUE, rows |-> Earliest(n, server[d].rows),
                         all |-> Cardinality(server[d].rows), total |-> -1]
                   ELSE Blank
  /\ pc' = IF job.count THEN "count" ELSE "answered"
  /\ Unchanged(<<server, currentDB, caches, job, screen, tainted>>)

(* COUNT of all there is now, or no answer. *)
SendCount ==
  /\ pc = "count"
  /\ answer' \in {answer} \cup
       IF Target # None /\ server[Target].kind # None
       THEN {[answer EXCEPT !.total = Cardinality(server[Target].rows)]} ELSE {}
  /\ pc' = "answered"
  /\ Unchanged(<<server, currentDB, caches, job, screen, tainted>>)

Answered ==
  /\ pc = "answered"
  /\ IF answer.ok THEN pc' = "precision" /\ UNCHANGED <<job, answer>> ELSE Finish
  /\ Unchanged(<<server, currentDB, caches, screen, tainted>>)

(* print(), in the unit of precisionForStatement(), and the note below it. *)
OnlyTotal == IF answer.total > Cardinality(answer.rows) THEN "total" ELSE None  \* mutant
Note == IF answer.total > Cardinality(answer.rows) THEN "total"
        ELSE IF AutoLimited(job.form) /\ Cardinality(answer.rows) >= Limit
        THEN "limited" ELSE None

Shown(rows, p) == {[meant |-> r.meant, text |-> Displayed(r.ts, p)] : r \in rows}

ShowAnswer ==
  /\ Ready /\ job.op = "select"
  /\ screen' = [rows  |-> Shown(answer.rows, Precision),
                sure  |-> Target \notin tainted,
                note  |-> Note,
                all   |-> IF AutoLimited(job.form) THEN answer.all ELSE 0,
                total |-> answer.total]
  /\ Finish
  /\ Unchanged(<<server, currentDB, caches, tainted>>)

-----------------------------------------------------------------------------
(* Other clients *)

Other == /\ others < MaxOthers /\ others' = others + 1
         /\ UNCHANGED <<currentDB, caches, pc, job, answer, screen, stmts>>

OtherDdl(d) ==
  /\ Other
  /\ \E b \in Changes(server[d]) : server' = [server EXCEPT ![d] = b]
  /\ tainted' = tainted \cup {d}

OtherRow(d, n) ==
  /\ Other
  /\ server[d].kind # None /\ Cardinality(server[d].rows) < MaxRows
  /\ server' = [server EXCEPT ![d].rows = Stored(@, [ts |-> n, meant |-> <<>>])]
  /\ UNCHANGED tainted

Statement ==
  \/ \E db \in DBs \cup {None} :
       \/ \E t \in Datetimes : Insert(db, t)
       \/ \E form \in {"plain", "limit", "aggregate"}, clause \in Clauses :
            Select(db, form, clause) \/ Reject(db, form, clause)
  \/ \E d \in DBs : DdlAnswered(d) \/ DdlLost(d) \/ Use(d)

Next ==
  \/ Statement
  \/ AskPrecision \/ SendInsert \/ UseDone
  \/ AskGroups \/ GroupsKnown \/ SendQuery \/ SendCount \/ Answered \/ ShowAnswer
  \/ \E d \in DBs : OtherDdl(d) \/ \E n \in OtherTimes : OtherRow(d, n)

Spec == Init /\ [][Next]_vars

-----------------------------------------------------------------------------
(* A datetime that is inserted is shown as the same datetime, up to the    *)
(* unit of its database, whatever database was current then and is now.    *)
(* The caches can only break this for a database that other clients have   *)
(* changed, or whose lookup failed; the conversion only for the second     *)
(* before 1970, and for what the finest unit cannot hold in 64 bits even   *)
(* where the database has a coarser one.                                   *)
Representable(t) == ~Refused(t) /\ Finer(t) \in -Half .. Half - 1

InFinest(x) == x.secs * PerSecond[Finest] +
               x.frac * (PerSecond[Finest] \div PerSecond[x.prec])
Abs(n) == IF n < 0 THEN -n ELSE n

RoundTrips ==
  screen.sure =>
    \A r \in screen.rows : r.meant # <<>> /\ Representable(r.meant) =>
      /\ r.text.frac >= 0
      /\ Abs(InFinest(r.text) - Finer(r.meant))
           < PerSecond[Finest] \div PerSecond[r.text.prec]

(* COUNT is not asked of a group, whose total it would not be.             *)
NoGroupTotal ==
  pc = "count" /\ Target # None /\ Target \notin tainted
    => server[Target].kind # "group"

(* When the shell's own limit has left rows out, a note says so; and rows  *)
(* are said to be left out only when some are, or were added since.        *)
TruncationTold ==
  /\ screen.all > Cardinality(screen.rows) => screen.note # None
  /\ screen.note = "total" =>
       screen.all > Cardinality(screen.rows) \/ screen.total > screen.all
=============================================================================
