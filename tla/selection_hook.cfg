\* A head that adds a decorated function to an existing module.
SPECIFICATION Spec
CONSTANTS
  Files <- MCFiles
  Definitions <- MCDefinitions
  Tests <- MCTests
  Kind <- MCKind
  FileOf <- MCFileOf
  SymbolOf <- MCSymbolOf
  Order <- MCOrder
  Methods <- MCMethods
  Contents <- MCContents
  Absent <- MCAbsent
  Broken <- MCBroken
  Roots <- MCRoots
  UnitOf <- MCUnitOf
  ShardCount = 2
  DefaultDuration = 1
  Base <- MCBase
  Heads <- MCHookHeads
  AutoLoaded <- MCAutoLoaded
  Fixtures <- MCFixtures
  Closure <- MCClosure
  Requests <- MCRequests
  Threads <- MCThreads
  MayFail = {"a1"}
  Durations <- MCDurations
  NoTest = NoTest
  NoFixture = NoFixture
  NoHead = NoHead
  NoMap = NoMap
  NoSelection = NoSelection
  NoReport = NoReport
INVARIANTS
  TestsLeftOutBehaveTheSame
CHECK_DEADLOCK FALSE
