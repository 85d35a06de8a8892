SPECIFICATION Spec
CONSTANTS
  Packages <- MCPackages
  Shapes <- MCShapes
  MaxDepth = 21
  UnknownBase = 1000
  Calls <- MCCalls
  Tails <- MCTails
  Noise = {}
INVARIANTS
  TypeOK
  Delivered
  CutIsNoticed
  RelayAgrees
  RelayIsHonest
CHECK_DEADLOCK FALSE
