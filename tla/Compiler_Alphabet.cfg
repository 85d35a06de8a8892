SPECIFICATION FairSpec
CONSTANTS
  Texts <- MCTexts
  Jobs <- Strays
  Packages <- MCPackages
PROPERTY ParsesUntilEOF
