CONSTANTS
  Bauds <- MCBauds
  Boot = 2
  Kinds <- MCKinds
  Scratch <- MCScratch
  Card <- MCCard
  RingCap = 4
  Batch = 2
  QCap = 1
  MaxFrames = 2
  MaxTarget = 2
  MaxKeys = 3

SPECIFICATION LiveSpec
CHECK_DEADLOCK FALSE

INVARIANT BaudAndLamp
INVARIANT BothWaysExact
PROPERTY EveryoneServed
