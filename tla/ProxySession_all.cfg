SPECIFICATION FairSpec
CONSTANTS
  public = public
  local = local
  NoAddr = NoAddr
  Asks <- Requests
  Addrs = {public, local}
  Special = {local}
  Lookup <- Answers
  Literals = {"literal"}
  Block = TRUE
  MaxPayload = 2
INVARIANTS RepliesFit OnlyPermitted PayloadInOrder
PROPERTIES PipesImplemented AbandonedEnds
CHECK_DEADLOCK FALSE
