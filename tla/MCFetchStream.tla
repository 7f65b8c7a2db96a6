---------------------------- MODULE MCFetchStream ----------------------------
(***************************************************************************)
(* Instances of FetchStream for TLC: two databases, two results.           *)
(***************************************************************************)
EXTENDS FetchStream, TLC

CONSTANTS db1, db2, r1, r2

(* The dbnodes count their streams by themselves: they hand out an id the  *)
(* other one uses too, and one that only differs from it beyond the bits   *)
(* that a FETCH carries.                                                   *)
IdsShared == db1 :> {1} @@ db2 :> {1, 3}
=============================================================================
