\* The ring has the sketch's own sizes; the writer laps it twice.
SPECIFICATION Spec
CONSTANTS
  Size = 20
  Back = 5
  MaxFrames = 45
  Speeds = {0, 1, 2, 3, 4, 5, 6, 7, 8, 9, 10, 11, 12, 13, 14, 15, 16, 17}
  Ids <- SomeIds
  Filters = {0, 5, 6}
  MaxRefusals = 2
  TIMEOUTVALUE = 3
  MaxArrivals = 3
  MaxSends = 4
  MaxResets = 1
  Remote = {TRUE, FALSE}
  \* Bytes of eight values, and three of them under way in each direction.
  ByteValues = 8
  InFlight = 3
  MaxFaults = 2
CHECK_DEADLOCK FALSE
INVARIANTS
  RingContents
  RateAsNamed IdsAsGiven LetsThrough
  SendResultTrue LateOnlyAfterTimeout RemoteOnlyAfterRemote
  EchoIsEarlier
PROPERTIES
  WindowSpec
  PortSpec OvertakenOnlyInBufferOne CallReturns
  BehindForEver
