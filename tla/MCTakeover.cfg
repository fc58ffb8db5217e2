CONSTANTS
  h1 = h1
  h2 = h2
  b1 = b1
  ip1 = ip1
  ip2 = ip2
  ip3 = ip3
  Socket = {h1, h2, b1}
  ViewbotSocket = {b1}
  IpOf <- MCIpOf
  Relay = {r1}
  TestStream = testStream
  NoStreamer = NoStreamer
  MaxArrivals = 3
SPECIFICATION FairSpec
INVARIANTS
  TypeOK
  OneTakeoverAtATime
  StatusNamesNoEndedStreamer
PROPERTIES
  GrantsRespectTheGlobalCooldown
  RequestsReplaceWhatTheyToreDown
  BotsNeverReplaceHumans
  HealthSparesFreshStreams
  ImplementsStreamSlot
  QueuedRequestsAreDecided
  DeadStreamersAreCleared
CHECK_DEADLOCK FALSE
