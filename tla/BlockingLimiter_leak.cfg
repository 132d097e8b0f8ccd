SPECIFICATION Spec
CONSTANTS
  Threads = {t1, t2, t3}
  Cap = 1
  QueueCap = 2
  MaxCalls = 3
INVARIANTS
  QueuedAreWaiting
