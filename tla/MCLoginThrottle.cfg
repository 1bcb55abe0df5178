SPECIFICATION FairSpec
CONSTANTS
  Keys = {k1}
  Max = 3
  Window = 3
  Lockout = 4
  Parallel = 2
INVARIANTS TypeOK LockNeedsMaxFailures GuessBudget
PROPERTY LockoutEnds
