SPECIFICATION Spec
CONSTANTS
  Wire <- MCWire
  Segment <- MCSegment
  Traffics <- AgainTraffic
  Parts <- MCParts
  Answers <- MCAnswers
  Listened <- MCListened
  PacketCap = 2
  MessageCap = 1
  Expire = 1
  AllowIncomplete = FALSE
  SeqSpace = 1000
  ContinueLen = 25
INVARIANT SkipsDuplicates
