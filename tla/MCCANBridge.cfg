SPECIFICATION FairSpec
CONSTANTS
  Indices <- MCIndices
  ArbId = {talon1}
  Data = {x}
  Periods <- MCPeriods
  RestBytes = 2
  TxSlots = 2
  RxSlots = 2
  RxBack = 1
  MaxFrames = 0
  KeepAlive = 1
  ByteMod = 3
  InCap = 3
  OutCap = 0
  HostCommands <- AliveHost
  LineFaults = TRUE
INVARIANT SketchTypeOK
INVARIANT DeadMan
PROPERTY LoopGoesOn
