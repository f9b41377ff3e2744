SPECIFICATION FairSpec
CONSTANTS
  MaxBytes = 2
  Window = 1
INVARIANTS NoEarlyClose
PROPERTIES PipesImplemented HalfCloseDelivers BothEndsFree
CHECK_DEADLOCK FALSE
