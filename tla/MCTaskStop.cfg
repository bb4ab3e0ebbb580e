\* One caller: what a successful Stop says about the task.
SPECIFICATION Spec
CONSTANTS
  Callers = {c1}
  Threads = {t1, t2}
  NoThread = NoThread
INVARIANT StoppedMeansStopped
CHECK_DEADLOCK FALSE
