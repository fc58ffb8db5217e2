CONSTANTS
  r1 = r1
  r2 = r2
  Human = Human
  NoStreamer = NoStreamer
  Relay = {r1}
  KickRelay = {}
  MaxArrivals = 3
SPECIFICATION Spec
CHECK_DEADLOCK FALSE
INVARIANT HumansStreamAlone
