\* Pages of two, three pull requests asked for, two moves while they are listed.
SPECIFICATION FairSpec
CONSTANTS
  Pulls <- MCPulls
  Listed <- MCListed
  Limit = 3
  PageSize = 2
  MaxMoves = 2
  MaxMeddling = 1
INVARIANTS
  TypeOK
  RecentIsListed
  OneRepeatForAMove
  EveryReviewCounts
PROPERTIES
  FeedbackEnds
CHECK_DEADLOCK FALSE
