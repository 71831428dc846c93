CONSTANTS
  Ring = 3
  ChMin = 1
  ChMax = 3
  MaxHeard = 4
  MaxSets = 2
  MaxTx = 2

SPECIFICATION ChipSpec
CHECK_DEADLOCK FALSE

PROPERTY InjectedIsAired
