SPECIFICATION FairSpec
CONSTANTS
  Wire <- MCWire
  Segment <- MCSegment
  Traffics <- MCTraffics
  Parts <- MCParts
  Answers <- MCAnswers
  Listened <- MCListened
  PacketCap = 1
  MessageCap = 1
  Expire = 1
  AllowIncomplete = FALSE
  SeqSpace = 1000
  ContinueLen = 25
INVARIANT TypeOK
INVARIANT PacketsSorted
INVARIANT WholeIsEmitted
INVARIANT KeyedByFirst
INVARIANT Accounted
INVARIANT OneObjectPerMessage
INVARIANT UUIDPairs
INVARIANT PayloadFound
PROPERTY EmittedIsFinal
PROPERTY Reassembles
PROPERTY Drains
