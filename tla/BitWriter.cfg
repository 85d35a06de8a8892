SPECIFICATION Spec
CONSTANTS
  Words <- MCWords
  Widths <- MCWidths
  Chunks <- MCChunks
  MaxCalls = 4
INVARIANTS
  TypeOK
  Faithful
PROPERTY
  AppendOnly
