SPECIFICATION Spec
CONSTANTS
  Threads = {t1, t2, t3}
  Sizes = {0, 1, 3, 11}
  Burst = 2
  Rate = 1
  DurationMax = 8
  U64Max = 13
  Idle = Idle
  MaxTime = 5
  MaxBytes = 14
INVARIANTS
  TypeOK
  RateRespected
PROPERTIES
  Paced
  ImplementsPacedLink
