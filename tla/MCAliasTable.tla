---------------------------- MODULE MCAliasTable ----------------------------
(* Names of the letters l, s and c: "ls" and "sl" share a place, "lsc",    *)
(* "csl" and "scl" another; "c" has a place of its own.                    *)
EXTENDS AliasTable

KeyDef == {<<108, 115>>, <<115, 108>>, <<108, 115, 99>>, <<99, 115, 108>>, <<115, 99, 108>>, <<99>>}
=============================================================================
