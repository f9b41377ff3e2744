SPECIFICATION Spec
CONSTANTS
  Streams = {s1, s2}
  NoStream = NoStream
  Kinds = {"udp", "ip", "pipe", "status"}
  MaxQueue = 1
SYMMETRY StreamSymmetry
INVARIANTS RouteWhileServing NoStaleRoute GracefulExit
CHECK_DEADLOCK FALSE
