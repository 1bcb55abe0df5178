SPECIFICATION FairSpec
CONSTANTS
  Keys = {k1}
  Max = 3
  Window = 3
  Lockout = 2
  Parallel = 1
PROPERTY GapForgets
