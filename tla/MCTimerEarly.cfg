\* A second timer may be given the record of a first one that was stopped.
SPECIFICATION Spec
CONSTANTS
  Addrs = {a1, a2}
  NoAddr = NoAddr
  MaxHandle = 2
  MaxFires = 1
  QCap = 2
INVARIANT NeverEarly
CHECK_DEADLOCK FALSE
