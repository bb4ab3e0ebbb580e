\* Two tasks, one of which sends from its handler, through the objects and to
\* all, and a caller that sends by name; two descriptors the tasks reuse.
SPECIFICATION FairSpec
CONSTANTS
  Tasks = {a, b}
  Callers = {c}
  FDs = {d1, d2}
  Bufs = {x}
  BroadcastBufs = {}
  QCap = 1
  NameSenders = {c}
  MemberSenders = {a}
  BroadcastSenders = {a}
  FailingInits = {a}
  NoFd = NoFd
  Null = Null
  Absent = Absent
  NoOne = NoOne
  NoBuf = NoBuf
INVARIANTS
  TypeOK
  MapNamesOpenQueue
  NamedArrivesWhereSent
  NothingLeftThroughMap
  OneHolderUntilFreed
PROPERTIES
  ShutdownCompletes
\* A sender may stay blocked on a full queue, with the map locked.
CHECK_DEADLOCK FALSE
