SPECIFICATION FairSpec
CONSTANTS
  Inits = {"sysv"}
  Configs <- PlainFlags
  MaxFaults = 2
PROPERTIES ArgsReachProcess
CHECK_DEADLOCK FALSE
