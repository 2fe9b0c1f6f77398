\* Publication: three runs, two commits, two comments or deletions by people (copied markers among them).
SPECIFICATION FairSpec
CONSTANTS
  s1 = s1
  s2 = s2
  alice = alice
  Bot = Bot
  NoAuthor = NoAuthor
  NoReview = NoReview
  NoComment = NoComment
  NoSha = NoSha
  Shas = {s1, s2}
  People = {alice}
  Sites <- MCSites
  Findings <- MCFindings
  Reviews <- MCReviews
  PeopleBodies <- MCPeopleBodies
  MaxRuns = 3
  MaxPushes = 2
  MaxMeddling = 2
  PageSize = 1
  Pages = 2
  OldBodies <- MCOldBodies
INVARIANTS
  TypeOK
  PublishedIsReproduced
  OneBotComment
  HeadIsReviewed
PROPERTIES
  SameShaKeeps
  NothingVanishes
  ImplementsBoard
  EveryRunEnds
CHECK_DEADLOCK FALSE
