CONSTANTS
  Symbols <- Console
  Programs <- AllPrograms
  Tier = 2
  Period = 16
  Boot = 9
  PulseMs <- Widths
  MaxTime = 5
  MaxCmds = 2
  MaxRx = 4
  Sizes <- LongShortFat
  Cap = 3
  Queue = 2
  MaxLosses = 2
  MaxResets = 1

SPECIFICATION PartSpec
CHECK_DEADLOCK FALSE

INVARIANT ExpectSound
INVARIANT SimpleExpectComplete
INVARIANT ShortOnlyAfterHit
INVARIANT RunsWholeProgram
PROPERTY CommandsEnd
PROPERTY EveryUploadEnds
