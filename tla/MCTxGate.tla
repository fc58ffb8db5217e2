------------------------------ MODULE MCTxGate ------------------------------
\* Small instances of TxGate: scopes of two writes and statements that are
\* called from outside, or started by a scope and left alone.
EXTENDS TxGate

CONSTANTS s1, s2, b1, b2
=============================================================================
