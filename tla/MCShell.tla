------------------------------- MODULE MCShell -------------------------------
(* Two names that share a place, an alias file that names one of them      *)
(* twice; a PROFILE that runs a command and defines an alias, one that     *)
(* ends at an empty line, and one that ends the shell.                     *)
EXTENDS Shell

ls == <<108, 115>>
sl == <<115, 108>>

Line(k, v) == [key |-> k, val |-> v]
fg == [kind |-> "fg"]

KeyDef == {ls, sl}
ProfilesDef == {<<fg, AliasCommand(Line(ls, "v1"))>>, <<[kind |-> "empty"], fg>>,
                <<[kind |-> "exit"]>>}
AliasFilesDef == {<<Line(ls, "v1"), Line(ls, "v2"), Line(sl, "v1")>>}
=============================================================================
