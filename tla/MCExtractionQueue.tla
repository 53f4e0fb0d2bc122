-------------------------- MODULE MCExtractionQueue --------------------------
EXTENDS ExtractionQueue, TLC

CONSTANTS c1, c2, j1
=============================================================================
