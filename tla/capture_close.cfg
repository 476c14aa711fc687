SPECIFICATION FairSpec
CONSTANTS
  Devices = {eth0, lo, wlan0}
  Named = {}
  Usable = {eth0, lo}
  PacketCap = 2
  MessageCap = 2
INVARIANT TypeOK
INVARIANT ClosedOnce
INVARIANT HandlesClosed
PROPERTY EndsAsOne
PROPERTY CloseStopsListen
PROPERTY FailureStopsInput
CHECK_DEADLOCK FALSE
