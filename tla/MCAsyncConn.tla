---------------------------- MODULE MCAsyncConn ----------------------------
(***************************************************************************)
(* Instances of AsyncConn for TLC: who calls what on a shared connection.  *)
(***************************************************************************)
EXTENDS AsyncConnInv, TLC

CONSTANTS main, aux

(* One thread issues every request and opens the connection again; another *)
(* waits for results and takes them (tests/async_backpressure_test.cpp).   *)
OpsSole ==
  main :> {"insert", "sync", "waitAll", "setMax", "connect"}
    @@ aux :> {"waitAllFor", "get"}

(* One thread issues the requests and closes, another waits for results    *)
(* and takes them.                                                         *)
OpsCalls ==
  main :> {"insert", "sync", "waitAll", "close"}
    @@ aux :> {"waitAll", "waitOne", "waitOneFor", "get"}

(* Inserts, and a wait for all of them. *)
OpsInserter == main :> {"insert", "waitAll"}

=============================================================================
