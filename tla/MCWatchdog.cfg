\* A queue task, which another thread calls too, and a plain one that owns the
\* watchdog or is watched; an ID that fits an int and one that does not.
SPECIFICATION FairSpec
CONSTANTS
  q = q
  p = p
  c = c
  QueueTasks = {q}
  PlainTasks = {p}
  Callers = {c}
  Callee <- MCCallee
  CallerOps = {"take", "register", "unregister"}
  TaskOps = {"take", "release"}
  IDs = {i, w}
  WideIDs = {w}
  Invalid = Invalid
  NoTask = NoTask
INVARIANTS
  TypeOK
  EntriesAreLive
  ReportsGoOn
  OwnerIsRunning
PROPERTIES
  WideOwnerIsStuck
  HungIsNoticed
\* No thread is created once the IDs are used up.
CHECK_DEADLOCK FALSE
