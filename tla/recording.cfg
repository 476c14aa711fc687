SPECIFICATION Spec
CONSTANTS
  Traffic <- MCTraffic
  Limit <- MCLimit
  SizeLimit = 9
  Ids <- MCIds
  PerFile = {TRUE, FALSE}
  Which = "response"
INVARIANT TypeOK
INVARIANT OwnFile
INVARIANT SurvivesEnd
INVARIANT NoOrphans
PROPERTY ReturnsOnly
PROPERTY RequestsAsFileOutput
PROPERTY AsFileOutput
CHECK_DEADLOCK FALSE
