\* One pull request, up to two functions asked about, a child that does anything.
SPECIFICATION FairSpec
CONSTANTS
  NoSender = NoSender
  MaxPaths = 6
  MaxChains = 2
  Key <- MCKey
  Keys <- MCKeys
  Projects <- MCProjects
  Graphs <- MCGraphs
  QueryLimit = 2
  MaxLines = 2
INVARIANTS
  TypeOK
  MarksTellTheGraph
  ComparedAsAWhole
  ObservedOnce
  AdoptedChildEnds
PROPERTIES
  ImplementsComparison
  AnalysisEnds
CHECK_DEADLOCK FALSE
