SPECIFICATION Spec
CONSTANTS
  Setups <- DamagedSetups
  DataCap = 4
  MaxTime = 12
PROPERTY Replays
CHECK_DEADLOCK FALSE
