\* Two chains of retries at once.
SPECIFICATION FairSpec
CONSTANTS
  c1 = c1
  c2 = c2
  Chain = {c1, c2}
  NoChain = NoChain
  Attempts = 2
  MaxArrivals = 2
INVARIANTS
  TypeOK
  OneRecoveryAtATime
  RotationsYieldToHumans
PROPERTIES
  RestartsEnd
  RecoversUnlessStale
\* Nothing has to happen once the outside events are used up.
CHECK_DEADLOCK FALSE
