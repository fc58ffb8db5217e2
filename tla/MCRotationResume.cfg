\* A rotation in flight when a human takes over.
SPECIFICATION FairSpec
CONSTANTS
  c1 = c1
  c2 = c2
  Chain = {c1}
  NoChain = NoChain
  Attempts = 2
  MaxArrivals = 2
PROPERTIES
  PausedRotationResumes
\* The rotation stops for good, which is what the run is about.
CHECK_DEADLOCK FALSE
