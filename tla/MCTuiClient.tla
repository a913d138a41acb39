---------------------------- MODULE MCTuiClient -----------------------------
\* TuiClient on a small instance.
EXTENDS TuiClient
=============================================================================
