SPECIFICATION Spec
CONSTANTS
  Threads = {t1, t2, t3, t4, t5}
  Cap = 2
  QueueCap = 2
  MaxCalls = 6
INVARIANTS
  TypeOK
  CountersMatch
  CapsRespected
  NoLostWakeup
PROPERTIES
  ImplementsAdmissionControl
  TimedCallReturns
  WaiterLeaves
