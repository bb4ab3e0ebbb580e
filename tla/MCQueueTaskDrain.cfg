\* One task and one caller: a message is pending when the task is stopped.
SPECIFICATION FairSpec
CONSTANTS
  Tasks = {a}
  Callers = {c}
  FDs = {d1}
  Bufs = {}
  BroadcastBufs = {}
  QCap = 1
  NameSenders = {c}
  MemberSenders = {}
  BroadcastSenders = {}
  FailingInits = {}
  NoFd = NoFd
  Null = Null
  Absent = Absent
  NoOne = NoOne
  NoBuf = NoBuf
PROPERTIES
  PendingAreCleanedUp
\* A sender may stay blocked on a full queue, with the map locked.
CHECK_DEADLOCK FALSE
