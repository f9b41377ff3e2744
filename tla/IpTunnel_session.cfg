SPECIFICATION FairSpec
CONSTANTS
  ByteBits = 4
  AddrLen <- Lengths
  HasToken = TRUE
  Requests <- MCRequests
  Scripts <- MCScripts
  Messages <- MCMessages
  Assigned <- MCAssigned
  MaxPending = 16
  Overhead = 8
  Margin = 40
  QuarterId = 1
  DefaultMtu = 1500
  Rooms = {48, 60}
INVARIANTS DispatchAgrees AnswersInOrder PacketsIntact NothingTooBig
PROPERTIES EveryRequestAnswered BrokenCapsuleEnds
CHECK_DEADLOCK FALSE
