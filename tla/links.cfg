CONSTANTS
  TxCap = 3
  RxCap = 2
  Chunk = 2
  MaxIn = 3
  MaxOut = 2
  MaxConns = 2
  MaxFails = 2
  N = 3
  Passes = 2
  MaxBytes = 3

SPECIFICATION LinkSpec
CHECK_DEADLOCK FALSE

INVARIANT OutputExact
PROPERTY CommandsServed
PROPERTY AllNotified
