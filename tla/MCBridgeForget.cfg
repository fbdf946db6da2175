SPECIFICATION Spec
CONSTANTS
  Indices <- MCIndices
  ArbId = {talon1}
  Data = {x}
  Periods <- AllPeriods
  RestBytes = 2
  TxSlots = 1
  RxSlots = 2
  RxBack = 1
  MaxFrames = 0
  KeepAlive = 3
  ByteMod = 4
  HostIndices = 1
  Requests <- Repeating
  QueueCap = 1
  MaxTries = 2
  CountMod = 2
  InCap = 5
  OutCap = 4
  MaxFaults = 0
  MaxCrashes = 0
  MayRestart = TRUE
  Prompt = TRUE
INVARIANT FireAndForget
