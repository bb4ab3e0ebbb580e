\* One thread that sends beside the owner's calls; the clock wraps every three
\* seconds, and the timeout is one second or none.
SPECIFICATION Spec
CONSTANTS
  Senders = {s}
  Owner = Owner
  Task = Task
  d1 = d1
  d2 = d2
  FDs = {d1, d2}
  NoFD = NoFD
  Requests <- MCRequests
  Timeouts = {0, 1}
  TickPeriod = 3
  Word = 4
SYMMETRY Descriptors
INVARIANTS
  TypeOK
  WriteHitsPort
  AppliedUnlessRaced
  AlertIsTrue
  ConfiguredHasBuffer
\* A call through the NULL parent ends the program.
CHECK_DEADLOCK FALSE
