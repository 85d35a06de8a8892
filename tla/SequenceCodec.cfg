SPECIFICATION FairSpec
CONSTANTS
  Root <- MCRoot
  Versions <- MCVersions
  MaxMessages = 2
INVARIANTS
  TypeOK
  FieldsDelivered
  InStep
  FilledInOrder
PROPERTIES
  DecoderReturns
CHECK_DEADLOCK FALSE
