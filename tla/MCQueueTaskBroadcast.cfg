\* A broadcast of a message whose data SetData allocated.
SPECIFICATION Spec
CONSTANTS
  Tasks = {a, b}
  Callers = {c}
  FDs = {d1, d2}
  Bufs = {x}
  BroadcastBufs = {x}
  QCap = 1
  NameSenders = {}
  MemberSenders = {}
  BroadcastSenders = {c}
  FailingInits = {}
  NoFd = NoFd
  Null = Null
  Absent = Absent
  NoOne = NoOne
  NoBuf = NoBuf
INVARIANT NoDanglingMessage
\* A sender may stay blocked on a full queue, with the map locked.
CHECK_DEADLOCK FALSE
