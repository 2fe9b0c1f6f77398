SPECIFICATION FairSpec
CONSTANTS
  MaxFindings = 2
  NoCase = NoCase
  NoResult = NoResult
INVARIANTS
  TypeOK
  ReproducedWasShown
  SectionsTellWhatHappened
PROPERTIES
  VerdictsStand
  JobEnds
CHECK_DEADLOCK FALSE
