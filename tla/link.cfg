CONSTANTS
  BodyLen = 2
  RxCap = 3
  MaxFrames = 2
  MaxLines = 1
  MaxFaults = 2
  MaxFlushes = 1

SPECIFICATION LiveSpec
CHECK_DEADLOCK FALSE

INVARIANT OwedDelivered
INVARIANT OneNakPerFault
PROPERTY ImplementsChannel
