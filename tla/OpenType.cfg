SPECIFICATION FairSpec
CONSTANTS
  K = 3
  MaxFactor = 2
  Lengths <- MCLengths
  MaxPayloads = 2
INVARIANTS
  TypeOK
  InStep
  StopsAtTheEnd
PROPERTIES
  Transfers
