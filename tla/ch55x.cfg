CONSTANTS
  Pkt = 2
  Wrap = 4
  Garbage = Garbage
  Bytes <- HostBytes
  Ep0Size = 2
  Descriptors = {4}
  Lengths = {3, 6}
  Bauds <- Rates
  Default <- Normal
  Touch <- Low
  MaxRequests = 2
  Meaning <- Texts
  BinCap = 2
  LineCap = 2
  Plans <- HostPlans
  MaxResets = 1

SPECIFICATION LiveSpec
CHECK_DEADLOCK FALSE

INVARIANT BytesExact
INVARIANT InPhase
PROPERTY LoopTurns
PROPERTY BaudFollows
