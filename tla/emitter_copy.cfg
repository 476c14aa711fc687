SPECIFICATION Spec
CONSTANTS
  Plugins <- HttpAndDubbo
  URLRegexp <- Api
  URLNegativeRegexp <- Debug
  Traffic <- HttpTraffic
  MaxRead <- HttpMaxRead
  GCEvery = 2
  GCAge = 1
  MaxTime = 2
INVARIANT TypeOK
INVARIANT DropsPairs
INVARIANT CountCovers
INVARIANT SameTraffic
PROPERTY WaitsForAll
CHECK_DEADLOCK FALSE
