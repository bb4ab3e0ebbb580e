\* Two descriptors, the parent and one more thread.
SPECIFICATION FairSpec
CONSTANTS
  Fds = {f1, f2}
  Listen = Listen
  Server = Server
  Parent = Parent
  Others = {t1}
  NoThread = NoThread
  MaxConnections = 2
  QCap = 1
INVARIANTS
  TypeOK
  ReportsFollowMap
  SocketsAccountedFor
  WriteHitsClient
  IteratorsStayValid
PROPERTIES
  CloseCompletes
  StopCompletes
CHECK_DEADLOCK FALSE
