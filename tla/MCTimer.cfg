\* Two Starts over two addresses, which the second may reuse.
SPECIFICATION FairSpec
CONSTANTS
  Addrs = {a1, a2}
  NoAddr = NoAddr
  MaxHandle = 2
  MaxFires = 1
  QCap = 2
INVARIANTS
  TypeOK
  RecordsOutliveTimers
  StoppedStaysSilent
  OneShotOnce
PROPERTIES
  OneShotEnds
CHECK_DEADLOCK FALSE
