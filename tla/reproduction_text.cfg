SPECIFICATION Spec
CONSTANTS
  MaxFindings = 1
  NoCase = NoCase
  NoResult = NoResult
INVARIANT
  FinalReviewLoads
CHECK_DEADLOCK FALSE
