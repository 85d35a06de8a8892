SPECIFICATION Spec
CONSTANTS
  Inputs <- MCInputs
  Widths <- MCWidths
  Counts <- MCCounts
INVARIANTS
  TypeOK
  InOrder
  FailsUpFront
