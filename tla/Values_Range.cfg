SPECIFICATION Spec
CONSTANTS
  W = 8
  B = 4
  SmallBits = 3
  MaxFactor = 2
  CharBits = 2
  Default = {0, 1, 2, 3}
  Calls <- Numerical
  Tails <- MCTails
  Noise <- MCNoise
INVARIANT AnyRangeCarried
CHECK_DEADLOCK FALSE
