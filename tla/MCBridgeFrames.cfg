SPECIFICATION PartsSpec
CONSTANTS
  Indices <- MCIndices
  ArbId = {talon1}
  Data = {x}
  Periods <- AllPeriods
  RestBytes = 2
  TxSlots = 1
  RxSlots = 3
  RxBack = 1
  MaxFrames = 6
  KeepAlive = 1
  ByteMod = 4
  HostIndices = 1
  Requests <- Repeating
  QueueCap = 1
  MaxTries = 2
  CountMod = 5
  InCap = 3
  OutCap = 12
  MaxFaults = 0
  MaxCrashes = 0
  MayRestart = TRUE
  Prompt = FALSE
PROPERTY GapNoticed
PROPERTY PublishedInOrder
PROPERTY SolicitedOnly
PROPERTY AlonePublished
