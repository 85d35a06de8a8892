SPECIFICATION FairSpec
CONSTANTS
  Texts <- MCTexts
  Jobs <- MCJobs
  Packages <- MCPackages
INVARIANTS
  TypeOK
  TokensAreTheText
  ShippedIsCompiled
  NothingLost
PROPERTY
  Advances
  AcceptsWholeModules
  CompilerReturns
