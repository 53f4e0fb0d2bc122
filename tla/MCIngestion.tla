----------------------------- MODULE MCIngestion -----------------------------
EXTENDS Ingestion, TLC

CONSTANTS a1, a2, w1, w2, k1, old, new, other

\* Two calls of one agent and content, so that the second is a duplicate, a
\* retry or, once the key has expired, another episode; the model reads either
\* of two facts in the text, and not the same one each time.
MCkey == [a \in Calls |-> k1]
MCSays == [k \in {k1} |-> {new, other}]
=============================================================================
