SPECIFICATION FairSpec
CONSTANTS
  Sessions = {s1, s2}
  Blocks = 3
  CleanupMayFail = TRUE
  MaxKills = 1
  MaxToggles = 1
PROPERTIES ImplementsLease HostEventuallyRestored
CHECK_DEADLOCK FALSE
