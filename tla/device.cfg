CONSTANTS
  Links = {usb, ws}
  usb = usb
  ws = ws
  Networked = {ws}
  Bridger = ws
  Threaded = FALSE
  NOutputs = 2
  Passwords = {duta, secret}
  duta = duta
  secret = secret
  NoPassword = empty
  empty = empty
  Default = duta
  MaxBytes = 2
  MaxSessions = 2
  MaxCmds = 3
  Pins <- BoardPins
  Caps <- BoardCaps
  Offered <- BoardOffered
  RgbPin = 5
  Compiled <- BoardTable
  MaxRows = 3
  Pool = 192
  PwmMax = 1023
  Channels = 1
  Tables <- HostTables
  Duties <- HostDuties
  Resolutions <- Widths
  Colors <- Palette
  White = 2
  MaxIoCmds = 5
  MaxCfg = 2
  MaxOutages = 1
  MaxBoots = 1

SPECIFICATION PartSpec
CHECK_DEADLOCK FALSE

INVARIANT OnlyAuthenticated
INVARIANT OutputsAsCommanded
INVARIANT TeeInOrder
INVARIANT PinsFollowLatches
INVARIANT StateIsReal
PROPERTY PromiseKept
PROPERTY PulseRestores
PROPERTY Reachable
