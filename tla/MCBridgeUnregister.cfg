SPECIFICATION Spec
CONSTANTS
  Indices <- MCIndices
  ArbId = {talon1, talon2}
  Data = {x}
  Periods <- AllPeriods
  RestBytes = 2
  TxSlots = 2
  RxSlots = 2
  RxBack = 1
  MaxFrames = 0
  KeepAlive = 2
  ByteMod = 4
  HostIndices = 2
  Requests <- OnceOrRepeat
  QueueCap = 1
  MaxTries = 2
  CountMod = 2
  InCap = 5
  OutCap = 4
  MaxFaults = 0
  MaxCrashes = 0
  MayRestart = TRUE
  Prompt = TRUE
INVARIANT TableAgrees
