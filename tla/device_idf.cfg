CONSTANTS
  Links = {usb, ws}
  usb = usb
  ws = ws
  Networked = {ws}
  Bridger = ws
  Threaded = TRUE
  NOutputs = 2
  Passwords = {duta, secret}
  duta = duta
  secret = secret
  NoPassword = empty
  empty = empty
  Default = duta
  MaxBytes = 2
  MaxSessions = 2
  MaxCmds = 3

SPECIFICATION Spec
CHECK_DEADLOCK FALSE

INVARIANT CoreSerialised
