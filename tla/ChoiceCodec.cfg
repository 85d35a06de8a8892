SPECIFICATION Spec
CONSTANTS
  Items <- MCItems
  MoreItems <- MCMoreItems
  UnknownBase = 10
  WidestIndex = 3
  Versions <- MCVersions
  MaxMessages = 3
INVARIANTS
  TypeOK
  Delivered
  UnknownIgnored
  FailureKeepsValues
  StaysConsistent
  RelayFaithful
CHECK_DEADLOCK FALSE
