SPECIFICATION Spec
CONSTANTS
  Texts <- MCTexts
  Jobs <- RulerJobs
  Packages <- MCPackages
INVARIANT CommentsEndAsDocumented
