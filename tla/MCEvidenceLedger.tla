--------------------------- MODULE MCEvidenceLedger ---------------------------
EXTENDS EvidenceLedger, TLC

CONSTANTS s1, s2, p1

\* The signals are interchangeable.
Symmetry == Permutations({s1, s2})
=============================================================================
