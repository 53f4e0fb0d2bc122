--------------------- MODULE MCConsolidationCoordinator ---------------------
(* Model values and symmetry for checking ConsolidationCoordinator.         *)
EXTENDS ConsolidationCoordinator, TLC

CONSTANTS s1, s2

\* Sound for the safety runs only: the scopes are interchangeable.
ScopeSymmetry == Permutations(Scopes)
=============================================================================
