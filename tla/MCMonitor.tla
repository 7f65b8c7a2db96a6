------------------------------ MODULE MCMonitor ------------------------------
(* An instance of Monitor for TLC. *)
EXTENDS Monitor

Req(v, o, b, n) == [verb |-> v, object |-> o, lead |-> b, len |-> n]

(* A query, one whose length is the code of a letter, an ALTER USER.       *)
MCRequests == {Req("SELECT", "x", 20, 40), Req("SELECT", "x", 0, 70),
               Req("ALTER", "USER", 0, 300)}
=============================================================================
