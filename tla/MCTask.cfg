\* Two callers race Starts and Stops over two incarnations.
SPECIFICATION FairSpec
CONSTANTS
  Callers = {c1, c2}
  Threads = {t1, t2}
  NoThread = NoThread
INVARIANTS
  TypeOK
  SemaphoreIsToken
  RegisteredWhileRunning
PROPERTIES
  StopSticks
  StopEndsRun
  StopIsConfirmed
  OneThreadAtATime
\* The object may delete itself, after which nothing can happen.
CHECK_DEADLOCK FALSE
