SPECIFICATION PartsSpec
CONSTANTS
 Indices <- MCIndices
 ArbId = {talon1}
 Data = {x}
 Periods <- AllPeriods
 RestBytes = 1
 TxSlots = 1
 RxSlots = 2
 RxBack = 1
 MaxFrames = 0
 MaxMessages = 2
 BusyFrames = 2
 BusyMessages = 1
 KeepAlive = 1
 ByteMod = 3
 HostIndices = 1
 Requests <- Repeating
 QueueCap = 1
 MaxTries = 1
 CountMod = 1
 InCap = 3
 OutCap = 1
 MaxFaults = 1
 MaxCrashes = 1
 MayRestart = FALSE
 Prompt = TRUE
PROPERTY CallbacksRun
PROPERTY OwedOnlyFalls
PROPERTY SilenceAfterDeath
