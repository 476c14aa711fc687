SPECIFICATION Spec
CONSTANTS
  Writers = {w1, w2}
  Flusher = flusher
  Accepts <- Requests
  MaxRecords = 6
  QueueLimit = 1
  SizeLimit = 9
  MaxStarts = 2
SYMMETRY Interchangeable
INVARIANT TypeOK
INVARIANT ChunkBound
INVARIANT WrittenOnce
PROPERTY LosesOnly
PROPERTY EarlierRunsKept
CHECK_DEADLOCK FALSE
