---------------------------- MODULE MCDetachedCore ----------------------------
(* Small instances of DetachedCore for the model checker.                  *)
EXTENDS DetachedCore

(* A swap and a negative code in a whole file, and a torn one for an ok;   *)
(* an error is what a crash gives.                                         *)
SomeExits == {<<"swap", "own">>, <<"negative", "own">>, <<"ok", "torn">>}
=============================================================================
