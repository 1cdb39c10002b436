----------------------------- MODULE MCConnect -----------------------------
(* Connect for TLC: two dials, with any three builder calls before, between *)
(* or after them.                                                          *)
EXTENDS Connect
=============================================================================
