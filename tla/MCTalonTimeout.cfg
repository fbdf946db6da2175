SPECIFICATION Spec
CONSTANTS
  Topic <- MCTopics
  Length <- MCLength
  StatusId <- MCStatus
  Getters <- OneGetter
  Param <- MCParam
  Stale = 0
  OutCap = 2
  MaxTraffic = 3
PROPERTY OkayIsRecent
CHECK_DEADLOCK FALSE
