SPECIFICATION FairSpec
CONSTANTS
  Inits = {"systemd", "openrc", "sysv"}
  Configs <- Flags
  MaxFaults = 2
INVARIANTS UninstallCleans
PROPERTIES ServesAgain
CHECK_DEADLOCK FALSE
