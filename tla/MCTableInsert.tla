---------------------------- MODULE MCTableInsert ----------------------------
(***************************************************************************)
(* Instances of TableInsert for TLC: two databases with a table t each.    *)
(***************************************************************************)
EXTENDS TableInsert, TLC

CONSTANTS db1, db2, t, u1, u2, u3

(* db1.t can be created twice, db2.t once.                                 *)
OwnerTwice == u1 :> <<db1, t>> @@ u2 :> <<db1, t>> @@ u3 :> <<db2, t>>

(* 1, where statements go by default, is the dbId of db1. *)
Nodes == db1 :> 1 @@ db2 :> 2

(* An application inserts by SQL statements or by a prepared one.  The     *)
(* bound loses little: the calls of either leave whatever the other's      *)
(* could have left in the caches.                                          *)
VARIABLE app

MCInit == Init /\ app \in {"sql", "stmt"}

MCNext == /\ \/ Catalogue \/ Cache
             \/ app = "sql" /\ Sql
             \/ app = "stmt" /\ (Stmt \/ \E d \in Dbs : Use(d))
          /\ UNCHANGED app

MCSpec == MCInit /\ [][MCNext]_<<vars, app>>

(* The uids of db1.t are alike. *)
Alike == Permutations({u1, u2})
=============================================================================
