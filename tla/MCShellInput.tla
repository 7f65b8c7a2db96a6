---------------------------- MODULE MCShellInput ----------------------------
(***************************************************************************)
(* Instances of ShellInput for TLC.  File "f" runs itself and then goes    *)
(* on; "g" ends in the middle of a comment and of a statement.             *)
(***************************************************************************)
EXTENDS ShellInput

Typeable == {"w", Blank, ";"}

MCContLines == {<<>>, <<"w">>, <<"w", ";">>, <<"\\q">>}

MCFiles == ("f" :> << <<"w", ";">>, <<"source", Blank, "f">>, <<"w">> >>) @@
           ("g" :> << <<"w", "/*">>, <<"source", Blank, "f">> >>)

MCTails == {<<>>, <<";">>, <<Blank, "--", "w">>}
=============================================================================
