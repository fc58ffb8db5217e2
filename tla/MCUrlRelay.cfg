CONSTANTS
  r1 = r1
  r2 = r2
  Human = Human
  NoStreamer = NoStreamer
  Relay = {r1, r2}
  KickRelay <- MCKick
  MaxArrivals = 2
SPECIFICATION FairSpec
CHECK_DEADLOCK FALSE
INVARIANTS
  TypeOK
  MutexesHold
  SettledRelaysOwnTheirEncoder
PROPERTIES
  RelaysYieldToHumans
  FlagsComeDown
  DeadRelaysRecoverOrGo
