\* Recording in two processes, every head, two shards.
SPECIFICATION FairSpec
CONSTANTS
  Files <- MCFiles
  Definitions <- MCDefinitions
  Tests <- MCTests
  Kind <- MCKind
  FileOf <- MCFileOf
  SymbolOf <- MCSymbolOf
  Order <- MCOrder
  Methods <- MCMethods
  Contents <- MCContents
  Absent <- MCAbsent
  Broken <- MCBroken
  Roots <- MCRoots
  UnitOf <- MCUnitOf
  ShardCount = 2
  DefaultDuration = 1
  Base <- MCBase
  Heads <- MCHeads
  AutoLoaded <- MCAutoLoaded
  Fixtures <- MCFixtures
  Closure <- MCClosure
  Requests <- MCRequests
  Threads <- MCThreads
  MayFail = {"a1"}
  Durations <- MCDurations
  NoTest = NoTest
  NoFixture = NoFixture
  NoHead = NoHead
  NoMap = NoMap
  NoSelection = NoSelection
  NoReport = NoReport
INVARIANTS
  TypeOK
  MapCoversEveryTest
  PassIsJustified
  CountsAreComplete
  ShardsAreBalanced
PROPERTIES
  ReviewGetsTests
CHECK_DEADLOCK FALSE
