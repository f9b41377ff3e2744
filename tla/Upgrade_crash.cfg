SPECIFICATION FairSpec
CONSTANTS
  Versions <- Releases
  First <- V1
  Managed = TRUE
  MaxFaults = 2
INVARIANTS NeverBack NeverDowngrade TempsBounded
PROPERTIES RestartTakesEffect
CHECK_DEADLOCK FALSE
