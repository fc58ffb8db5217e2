----------------------------- MODULE MCArchive ------------------------------
\* Small instances of Archive.
EXTENDS Archive

CONSTANTS s1, s2
=============================================================================
