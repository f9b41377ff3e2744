SPECIFICATION MixedSpec
CONSTANTS
  Streams = {s1, s2}
  NoStream = NoStream
  Kinds = {"udp", "ip"}
  MaxQueue = 1
PROPERTIES LossDrains StreamEndStopsIp
CHECK_DEADLOCK FALSE
