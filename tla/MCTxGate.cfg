\* Safety and liveness: two scopes, two statements, crashes at any point.
SPECIFICATION FairSpec
CONSTANTS
  s1 = s1
  s2 = s2
  b1 = b1
  b2 = b2
  Scope = {s1, s2}
  Statement = {b1, b2}
  NoScope = NoScope
  Writes = 2
INVARIANTS
  TypeOK
  ForeignWritesStayOut
PROPERTIES
  EveryCallReturns
  ImplementsAtomicStore
\* Every call is made once; then nothing has to happen.
CHECK_DEADLOCK FALSE
