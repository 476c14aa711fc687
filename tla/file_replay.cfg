SPECIFICATION FairSpec
CONSTANTS
  Setups <- MCSetups
  DataCap = 6
  MaxTime = 12
INVARIANT TypeOK
INVARIANT EndsWhenDone
INVARIANT NotAhead
PROPERTY Replays
PROPERTY CloseEndsEmit
CHECK_DEADLOCK FALSE
