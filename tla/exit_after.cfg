SPECIFICATION FairSpec
CONSTANTS
  Plugins <- DubboToFile
  URLRegexp = {}
  URLNegativeRegexp = {}
  Traffic <- NoTraffic
  MaxRead <- NoMaxRead
  GCEvery = 2
  GCAge = 1
  MaxTime = 1
PROPERTY Exits
CHECK_DEADLOCK FALSE
