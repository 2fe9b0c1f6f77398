\* Two runs of a Gitea that ignores the concurrency group.
SPECIFICATION Spec
CONSTANTS
  s1 = s1
  s2 = s2
  alice = alice
  Bot = Bot
  NoAuthor = NoAuthor
  NoReview = NoReview
  NoComment = NoComment
  NoSha = NoSha
  Shas = {s1, s2}
  People = {alice}
  Sites <- MCIgnoresGroup
  Findings <- MCFindings
  Reviews <- MCReviews
  PeopleBodies <- MCPeopleBodies
  MaxRuns = 2
  MaxPushes = 2
  MaxMeddling = 1
  PageSize = 1
  Pages = 2
  OldBodies <- MCOldBodies
PROPERTIES
  NeverOverwritesNewer
CHECK_DEADLOCK FALSE
