SPECIFICATION FairSpec
CONSTANTS
  Topic <- MCTopics
  Length <- MCLength
  StatusId <- MCStatus
  Getters <- OneGetter
  Param <- MCParam
  Stale = 0
  OutCap = 2
  MaxTraffic = 3
INVARIANT ClientTypeOK
INVARIANT NoHalfCommand
INVARIANT LastOfTopicWins
PROPERTY StatusNeverOlder
PROPERTY SettledAnswer
PROPERTY StatusFollows
CHECK_DEADLOCK FALSE
