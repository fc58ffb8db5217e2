\* What a failed ROLLBACK does to later statements.
SPECIFICATION Spec
CONSTANTS
  s1 = s1
  s2 = s2
  b1 = b1
  b2 = b2
  Scope = {s1, s2}
  Statement = {b1, b2}
  NoScope = NoScope
  Writes = 2
INVARIANT
  StuckConnectionsAreLeftAlone
\* Every call is made once; then nothing has to happen.
CHECK_DEADLOCK FALSE
