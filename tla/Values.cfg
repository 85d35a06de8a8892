SPECIFICATION Spec
CONSTANTS
  W = 8
  B = 4
  SmallBits = 3
  MaxFactor = 2
  CharBits = 2
  Default = {0, 1, 2, 3}
  Calls <- MCCalls
  Tails <- MCTails
  Noise <- MCNoise
INVARIANTS
  TypeOK
  RoundTrip
  CutIsNoticed
  Shortest
  Defensive
  StaysInAlphabet
  Canonical
CHECK_DEADLOCK FALSE
