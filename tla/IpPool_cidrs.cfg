SPECIFICATION PoolSpec
CONSTANTS
  AddrSpace = 64
  Pools4 <- Cidrs
  Pools6 <- Prefixes
  MaxBlocks = 36
INVARIANTS InsidePool LeasesDisjoint ExactCapacity
CHECK_DEADLOCK FALSE
