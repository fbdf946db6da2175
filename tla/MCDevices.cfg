SPECIFICATION DevicesSpec
CONSTANTS
  Values <- MCValues
  Tenths <- MCTenths
  MaxCommands = 2
  Getters <- MCGetters
  Samples <- MCSamples
  MaxStatusFrames = 2
  Base = 8
  Used <- EveryQuantity
  Stray = {1}
  Arguments <- MCArguments
  Periods = {0, 1, 7, 300}
  MaxCalls = 1
  Device = 0
  Panels = {0, 1}
  Readings <- MCReadings
  Length = 100
  MaxFrames = 2
  MaxControls = 1
CHECK_DEADLOCK FALSE
INVARIANTS
  TypeOK OrderInForce
  SignalWasSent SetIsInForce
  SignalIsOwn
 
