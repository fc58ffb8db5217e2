CONSTANTS
  h1 = h1
  h2 = h2
  b1 = b1
  ip1 = ip1
  ip2 = ip2
  ip3 = ip3
  Socket = {h1, h2}
  ViewbotSocket = {}
  IpOf <- MCIpOf
  Relay = {}
  TestStream = testStream
  NoStreamer = NoStreamer
  MaxArrivals = 3
SPECIFICATION Spec
PROPERTY LeaversEndNobodyElsesStream
CHECK_DEADLOCK FALSE
