------------------------------ MODULE MCA2Exec ------------------------------
(***************************************************************************)
(* Instances of A2Exec for TLC: the scripts of MCScripts.                  *)
(***************************************************************************)
EXTENDS A2Exec, MCScripts

MCIntent(program, globals) ==
  LET outcome == Source!Meaning(program, globals) IN outcome

MCGlobals == [id |-> <<"cfn", 0>>]

=============================================================================
