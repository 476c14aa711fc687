SPECIFICATION FairSpec
CONSTANTS
  Writers = {w1}
  Flusher = flusher
  Accepts <- Requests
  MaxRecords = 1
  QueueLimit = 2
  SizeLimit = 9
  MaxStarts = 1
PROPERTY FlushedInTime
CHECK_DEADLOCK FALSE
