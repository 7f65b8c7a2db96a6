---------------------------- MODULE RequestHooks ----------------------------
(***************************************************************************)
(* What a statement is counted as.  The client picks a message type by the *)
(* first words of the text (EtDBConnection::query); the server's hooks     *)
(* (src/monitor/MonitorHooks.h) have that type and the payload to go by.   *)
(*                                                                         *)
(* A request is a record: its verb and object, the first two words of the  *)
(* statement in capitals; lead, the blanks before the verb; and len, the   *)
(* length of the text.  A text message starts with that length, four bytes *)
(* with the highest first, and the text follows.                           *)
(***************************************************************************)
EXTENDS Integers, Sequences

None == "none"

(* The tests of query() in their order; "" stands for any object.          *)
Rules == <<
  <<"INSERT", "", "SUBMIT">>,
  <<"SELECT", "", "QUERY">>,
  <<"SHOW", "", "SHOW">>, <<"DESCRIBE", "", "SHOW">>, <<"DESC", "", "SHOW">>,
  <<"CREATE", "DATABASE", "CREATE_DB">>, <<"CREATE", "DB", "CREATE_DB">>,
  <<"DROP", "DATABASE", "DROP_DB">>, <<"DROP", "DB", "DROP_DB">>,
  <<"USE", "", "USE_DB">>,
  <<"CREATE", "TABLE", "CREATE_TABLE">>, <<"CREATE", "STABLE", "CREATE_TABLE">>,
  <<"DROP", "TABLE", "DROP_TABLE">>, <<"DROP", "STABLE", "DROP_TABLE">>,
  <<"CREATE", "GROUP", "CREATE_TABLE">>, <<"DROP", "GROUP", "DROP_TABLE">>,
  <<"ALTER", "", "ALTER_TABLE">>,
  <<"CREATE", "USER", "CREATE_USER">>, <<"DROP", "USER", "DROP_USER">>,
  <<"ALTER", "USER", "ALTER_USER">>,
  <<"GRANT", "", "ALTER_USER">>, <<"REVOKE", "", "ALTER_USER">> >>

Matches(i, r) == r.verb = Rules[i][1] /\ Rules[i][2] \in {"", r.object}

(* The type of the message; None is a syntax error, and nothing is sent.   *)
MsgType(r) ==
  LET hits == {i \in DOMAIN Rules : Matches(i, r)}
  IN  IF hits = {} THEN None
      ELSE Rules[CHOOSE i \in hits : \A j \in hits : i <= j][3]

-----------------------------------------------------------------------------
(* The indexes of db_queries_total, Count of them.                         *)
Select == 1
Insert == 2
Ddl    == 3
Show   == 4
Use    == 5
Fetch  == 6
Meta   == 7
Other  == 8
Count  == 8

LengthBytes(n) == {(n \div 16777216) % 256, (n \div 65536) % 256,
                   (n \div 256) % 256, n % 256}
Letters == (65 .. 90) \cup (97 .. 122)
Digits  == 48 .. 57

MaxSkip == 24

(* sniffSql() starts at the first letter, which is the verb's unless a byte *)
(* of the length looks like one or the verb lies too far in.  A word that   *)
(* starts elsewhere is no keyword.                                          *)
Sniffable(r) ==
  LengthBytes(r.len) \cap Letters = {} /\ 4 + r.lead <= MaxSkip

sniffSql(r) ==
  IF ~Sniffable(r)                                      THEN Other
  ELSE CASE r.verb = "SELECT"                           -> Select
         [] r.verb = "INSERT"                           -> Insert
         [] r.verb \in {"CREATE", "DROP", "ALTER", "TRUNCATE"} -> Ddl
         [] r.verb = "SHOW"                             -> Show
         [] r.verb = "USE"                              -> Use
         [] r.verb = "FETCH"                            -> Fetch
         [] OTHER                                       -> Other

DdlTypes == {"CREATE_DB", "DROP_DB", "CREATE_TABLE", "DROP_TABLE",
             "ALTER_TABLE", "CREATE_USER", "DROP_USER", "ALTER_USER"}

DataOnly(m) == m \in {"SUBMIT", "QUERY", "FETCH"}                 \* mutant
isCountedRequest(m) ==
  m \in {"SUBMIT", "QUERY", "FETCH", "USE_DB", "SHOW", "TABLE_META",
         "TABLES_META"} \cup DdlTypes

classifyRequest(r, m) ==
  CASE m = "SUBMIT"                       -> Insert
    [] m = "FETCH"                        -> Fetch
    [] m = "QUERY"                        -> sniffSql(r)
    [] m = "SHOW"                         -> Show
    [] m = "USE_DB"                       -> Use
    [] m \in {"TABLE_META", "TABLES_META"} -> Meta
    [] m \in DdlTypes                     -> Ddl
    [] OTHER                              -> Other

MaxText == 512

(* The text recordSlowFromCont() logs: from the first letter or digit of    *)
(* the payload on, so a byte of the length may come first; where it starts, *)
(* and whether it is cut short.                                             *)
Logged(r) ==
  LET junk == LengthBytes(r.len) \cap (Letters \cup Digits) # {}
  IN  [of    |-> r,
       start |-> IF junk THEN "length"
                 ELSE IF 4 + r.lead <= MaxSkip THEN "verb" ELSE "blanks",
       cut   |-> r.len > MaxText]
=============================================================================
