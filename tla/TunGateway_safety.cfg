SPECIFICATION Spec
CONSTANTS
  Sessions = {s1, s2, s3, s4}
  Blocks = 3
  CleanupMayFail = TRUE
  MaxKills = 0
  MaxToggles = 0
SYMMETRY SessionSymmetry
INVARIANTS RefcountExact ForwardingWhileServed RulesAccounted HostRestored AddressesDistinct
CHECK_DEADLOCK FALSE
