SPECIFICATION Spec
CONSTANTS
  Writers = {w1, w2}
  Flusher = flusher
  Accepts <- NotSecond
  MaxRecords = 5
  QueueLimit = 0
  SizeLimit = 1
  MaxStarts = 1
INVARIANT WrittenStays
CHECK_DEADLOCK FALSE
