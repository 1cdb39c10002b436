---------------------------- MODULE MCPathProbe ----------------------------
(* PathProbe for TLC: a chain of three names, one inside the other and all   *)
(* alike, so that a directory may hold a file of its own name at each level.*)
EXTENDS PathProbe

Chain == {<<"a">>, <<"a", "a">>, <<"a", "a", "a">>}
=============================================================================
