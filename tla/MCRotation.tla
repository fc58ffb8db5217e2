----------------------------- MODULE MCRotation -----------------------------
\* Small instances of Rotation: one or two chains of retries.
EXTENDS Rotation

CONSTANTS c1, c2
=============================================================================
