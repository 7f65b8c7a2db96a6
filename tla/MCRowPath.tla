----------------------------- MODULE MCRowPath -----------------------------
(***************************************************************************)
(* Instances of RowPath for TLC: bytes of four values and numbers in base  *)
(* three, so that 8, 32 and 64 bits are one, two and three bytes.  The     *)
(* literals are those about the limits of each type, and a few that are no *)
(* numbers; all but the second value of the first group are simple.        *)
(***************************************************************************)
EXTENDS RowPath, TLC

MCBytes == [t \in {"TINYINT", "UTINYINT", "BOOL"} |-> 1] @@
           [t \in {"INT", "UINT"} |-> 2] @@
           [t \in {"BIGINT", "UBIGINT", "TIMESTAMP"} |-> 3]

MCDigit == "0" :> 0 @@ "1" :> 1 @@ "2" :> 2
MCChars == DOMAIN MCDigit \cup {"+", "-", " ", "x"}

Column1 == [type |-> "TIMESTAMP", bytes |-> 3]
MCSchemas == {<<Column1, [type |-> t, bytes |-> MCBytes[t]]>> :
               t \in DOMAIN MCBytes}
            \cup {<<Column1, [type |-> "NCHAR", bytes |-> 2]>>}

(* -2 to 4, 7 to 9 and -8 and -9, 15 and 16, 31 and 32 and -32 and -33, 63 *)
(* and 64, 80 and 81.                                                      *)
Numbers ==
  {<<"0">>, <<"+", "1">>, <<"1">>, <<"2">>, <<"-", "1">>, <<"-", "2">>, <<"1", "0">>, <<"1", "1">>,
   <<"2", "1">>, <<"2", "2">>, <<"-", "2", "2">>, <<"-", "1", "0", "0">>,
   <<"1", "2", "0">>, <<"1", "2", "1">>, <<"1", "0", "1", "1">>,
   <<"1", "0", "1", "2">>, <<"-", "1", "0", "1", "2">>, <<"-", "1", "0", "2", "0">>,
   <<"2", "1", "0", "0">>, <<"2", "1", "0", "1">>, <<"2", "2", "2", "2">>,
   <<"1", "0", "0", "0", "0">>}
(* Any bits would do that are not those of the number itself. *)
MCDouble == [s \in Numbers |-> (5 * ValueOf(s) + 20) % 64]

Bare(s)   == [form |-> "bare", chars |-> s]
Quoted(s) == [form |-> "quoted", chars |-> s]
Others == {Bare(<<>>), Bare(<<"1", "x">>), Quoted(<<" ", "x", " ", "2", " ">>),
           Quoted(<<"x", "2", "1">>), [form |-> "mixed", chars |-> <<"x", "x">>]}

MCLiterals(g, i) ==
  IF g = 1 /\ i = 2 THEN {Bare(s) : s \in Numbers} \cup Others
  ELSE IF g = 1 /\ i = 1
  THEN {Bare(<<"2">>), Bare(<<"-", "1", "0", "2", "0">>), Bare(<<"+", "1">>), Quoted(<<"1", "x">>)}
  ELSE {Bare(<<"1">>), Quoted(<<"x">>)}
=============================================================================
