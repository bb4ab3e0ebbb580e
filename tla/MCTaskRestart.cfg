\* One caller: whether a task that ended can be started again.
SPECIFICATION Spec
CONSTANTS
  Callers = {c1}
  Threads = {t1, t2}
  NoThread = NoThread
INVARIANT RestartableWhenEnded
CHECK_DEADLOCK FALSE
