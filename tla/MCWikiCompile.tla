---------------------------- MODULE MCWikiCompile ----------------------------
(* Model values for checking WikiCompile.                                   *)
EXTENDS WikiCompile

CONSTANTS a, b, c
=============================================================================
