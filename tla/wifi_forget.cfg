CONSTANTS
  MaxCfg = 2
  MaxOutages = 1
  MaxBoots = 1

SPECIFICATION JoinSpec
CHECK_DEADLOCK FALSE

INVARIANT Forgotten
