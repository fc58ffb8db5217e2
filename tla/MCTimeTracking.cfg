CONSTANTS
  a = a
  b = b
  c = c
  u1 = u1
  u2 = u2
  home = home
  cafe = cafe
  Tab = {a, b, c}
  User = {u1, u2}
  NoUser = NoUser
  Ip <- MCIp
  Account <- MCAccount
  Bot = Bot
  Relay = Relay
  NoStreamer = NoStreamer
  MaxArrivals = 4
SPECIFICATION FairSpec
CHECK_DEADLOCK FALSE
INVARIANTS
  TypeOK
  PaidUsersHaveSessions
  StreamersKeepTheirSession
  OustedStreamersLoseTheirSession
PROPERTIES
  ForgottenSessionsEnd
