CONSTANTS
  v1 = v1
  v2 = v2
  v3 = v3
  home = home
  cafe = cafe
  Viewers = {v1, v2, v3}
  Address <- MCAddress
  Kinds = {"skip", "swap", "lock"}
  MaxMoves = 4
  MaxEvents = 2
  None = None
SPECIFICATION Spec
INVARIANTS
  TypeOK
  OrdinaryVotesExclude
  VotesActOnce
  RewardsGoToOneWinner
PROPERTIES
  VotesAndEventsEnd
CHECK_DEADLOCK FALSE
