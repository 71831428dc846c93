CONSTANTS
  Hdr = 2
  OutCap = 4
  AccCap = 8
  RecvMax = 3
  DevCap = 6
  Lens = {1, 4, 5}
  Pings = {1}
  MaxSess = 2
  MaxFrames = 3
  NClients = 3
  MaxSends = 4
  MaxFlaps = 1
  Backlog = 2

SPECIFICATION ViewSpec
CHECK_DEADLOCK FALSE

INVARIANT SessionOwned
INVARIANT NoDescriptorLost
INVARIANT StreamExact
PROPERTY ProbesHarmless
PROPERTY NewestWins
PROPERTY Arrives
