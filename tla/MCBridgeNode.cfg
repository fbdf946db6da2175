SPECIFICATION Spec
CONSTANTS
  Indices <- MCIndices
  ArbId = {talon1, talon2, param}
  Data = {x}
  Periods <- MCPeriods
  RestBytes = 2
  HostIndices = 2
  Requests <- MCRequests
  QueueCap = 1
  MaxTries = 2
  CountMod = 1
  InCap = 0
  OutCap = 2
  LineTokens <- MCAnswers
INVARIANT NodeTypeOK
INVARIANT IndexOwned
PROPERTY NewIndexIsLow
