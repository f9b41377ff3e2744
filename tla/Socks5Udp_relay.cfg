SPECIFICATION FairSpec
CONSTANTS
  c1 = c1
  c2 = c2
  public = public
  other = other
  local = local
  NoAddr = NoAddr
  Clients = {c1, c2}
  Targets = {public, other, local}
  Special = {local}
  Hosts = {"name", "literal"}
  Lookup <- Answers
  Announced = NoAddr
  BlockSpecial = TRUE
  Backlog = 2
INVARIANTS OnlyPermittedTargets PinnedTargets RepliesFollowRequests
PROPERTIES ControlEndStops
CHECK_DEADLOCK FALSE
