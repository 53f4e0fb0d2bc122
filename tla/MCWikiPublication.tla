-------------------------- MODULE MCWikiPublication --------------------------
(* Model values and symmetry for checking WikiPublication.                  *)
EXTENDS WikiPublication, TLC

CONSTANTS p1, p2, c1, c2

\* Sound for the safety runs only.
Symmetry == Permutations(Procs) \cup Permutations(Changes)
=============================================================================
